---- MODULE Spec2Model ----
(***************************************************************************)
(* State-machine model of the bitcast-rs storage engine: the append-only   *)
(* log of data files, the in-memory keydir (BTreeIndexer), the engine      *)
(* operations (open / put / get / delete / sync / close), the write batch  *)
(* (put / delete / get / commit) and the replay that rebuilds the keydir   *)
(* at open.  Disk contents survive close and crash; a crash keeps the      *)
(* fsynced part of every file and an arbitrary prefix of the rest.         *)
(***************************************************************************)
EXTENDS Integers, Sequences, FiniteSets, TLC

(***************************************************************************)
(* Bounds of the model.                                                    *)
(***************************************************************************)
MaxRecords == 4        \* cap on the number of entries in the whole log
MaxSessions == 1       \* sessions that make calls; one more open may follow
MaxTorn == 2           \* longest torn fragment a crash leaves (bytes)
DatafileSize == 40     \* options.datafile_size used by the model (bytes)
MaxBatchSize == 2      \* write batch options.max_batch_size of the model
MaxSeqId == 2          \* failing commits take sequence ids below this one
MaxStored == 2         \* records in the file whose bytes are altered

(***************************************************************************)
(* Inputs: user keys and values are byte strings.                          *)
(***************************************************************************)
Keys == { <<97>>, <<97, 98>> }
Values == { <<1>>, <<2>> }
CommitValues == { <<2>> }    \* the values staged in runs with restarts
CrashValues == { <<1>> }     \* the values written in runs with crashes
CorruptBytes == { 0, 2, 7, 129 }   \* the values an altered byte takes

SyncInWrite == FALSE

(***************************************************************************)
(* Program constants.                                                      *)
(***************************************************************************)
INITAIL_FILE_ID == 0
NON_BATCH_COMMIT_ID == 0
LOG_CRC_SIZE == 4
LOG_TYPE_FLAG_SIZE == 1
NON_TXN_PREFIX == <<110, 111, 110, 95, 116, 120, 110>>
TXN_FIN_PREFIX == <<116, 120, 110, 95, 102, 105, 110, 95, 112, 114, 101, 102, 105, 120>>

(***************************************************************************)
(* Byte-string helpers.                                                    *)
(***************************************************************************)
\* Ord::cmp on byte slices: lexicographic, a proper prefix sorts first.
RECURSIVE BytesLess(_, _)
BytesLess(a, b) ==
    IF b = <<>> THEN FALSE
    ELSE IF a = <<>> THEN TRUE
    ELSE IF Head(a) # Head(b) THEN Head(a) < Head(b)
    ELSE BytesLess(Tail(a), Tail(b))

StartsWith(key, prefix) ==
    /\ Len(prefix) <= Len(key)
    /\ SubSeq(key, 1, Len(prefix)) = prefix

\* prost::encode_length_delimiter: 7-bit groups, MSB set on continuation.
RECURSIVE EncodeLengthDelimiter(_)
EncodeLengthDelimiter(n) ==
    IF n < 128 THEN <<n>>
    ELSE <<(n % 128) + 128>> \o EncodeLengthDelimiter(n \div 128)

\* prost::length_delimiter_len
LengthDelimiterLen(n) == Len(EncodeLengthDelimiter(n))

\* prost::decode_length_delimiter: value and number of bytes consumed;
\* used = 0 when the buffer ends inside the varint.
RECURSIVE DecodeLengthDelimiter(_)
DecodeLengthDelimiter(buf) ==
    IF buf = <<>> THEN [value |-> 0, used |-> 0]
    ELSE IF Head(buf) < 128 THEN [value |-> Head(buf), used |-> 1]
    ELSE LET rest == DecodeLengthDelimiter(Tail(buf))
         IN  IF rest.used = 0 THEN rest
             ELSE [value |-> (Head(buf) - 128) + 128 * rest.value,
                   used |-> rest.used + 1]

\* batch::log_record_key_with_sequence
LogRecordKeyWithSequence(key, prefix, seq_id) ==
    EncodeLengthDelimiter(Len(prefix)) \o prefix
        \o EncodeLengthDelimiter(seq_id) \o key

\* batch::log_record_key_parse
LogRecordKeyParse(framed) ==
    LET p == DecodeLengthDelimiter(framed)
        afterLen == SubSeq(framed, p.used + 1, Len(framed))
        prefix == SubSeq(afterLen, 1, p.value)
        afterPrefix == SubSeq(afterLen, p.value + 1, Len(afterLen))
        s == DecodeLengthDelimiter(afterPrefix)
    IN  IF p.used = 0 \/ Len(afterLen) < p.value \/ s.used = 0
        THEN [err |-> "DecodingError", prefix |-> <<>>, seq_id |-> 0, key |-> <<>>]
        ELSE [err |-> "ok", prefix |-> prefix, seq_id |-> s.value,
              key |-> SubSeq(afterPrefix, s.used + 1, Len(afterPrefix))]

\* generate_nano_timestamp_prefix: the clock reading as 8 little-endian bytes
RECURSIVE ToLeBytes(_, _)
ToLeBytes(n, width) ==
    IF width = 0 THEN <<>>
    ELSE <<n % 256>> \o ToLeBytes(n \div 256, width - 1)

GenerateNanoTimestampPrefix(now) == ToLeBytes(now, 8)


(***************************************************************************)
(* Log records and the files that hold them.                               *)
(*                                                                         *)
(* A file is the sequence of entries written to it plus the number of      *)
(* leading entries that reached stable storage.  An entry is an encoded    *)
(* record; torn > 0 marks a fragment of that many bytes left by a crash.   *)
(***************************************************************************)
LogRecord(record_type, key, value) ==
    [record_type |-> record_type, key |-> key, value |-> value, torn |-> 0]

\* LogRecord::encoded_length, the length of LogRecord::encode()
EncodedLength(rec) ==
    LOG_TYPE_FLAG_SIZE + LengthDelimiterLen(Len(rec.key))
        + LengthDelimiterLen(Len(rec.value))
        + Len(rec.key) + Len(rec.value) + LOG_CRC_SIZE

EntrySize(e) == IF e.torn > 0 THEN e.torn ELSE EncodedLength(e)

RECURSIVE PhysicalSize(_)
PhysicalSize(ents) ==
    IF ents = <<>> THEN 0
    ELSE EntrySize(Head(ents)) + PhysicalSize(Tail(ents))

EntryStart(ents, i) == PhysicalSize(SubSeq(ents, 1, i - 1))

EmptyFile == [ents |-> <<>>, synced |-> 0]

ReadErr(e) == [err |-> e, record |-> LogRecord("Normal", <<>>, <<>>), size |-> 0]

\* DataFile::read_log_record over the bytes of one file.  torn < 0 marks a
\* record whose bytes the device fails to read.  A read at or past
\* the end sees a zeroed header (ReadEOF); so does a fragment that holds only
\* the type byte at the end of the file.  Any other read that does not start
\* at a whole record decodes bytes whose checksum does not match.
ReadLogRecord(ents, offset) ==
    IF offset >= PhysicalSize(ents) THEN ReadErr("ReadEOF")
    ELSE IF \E i \in 1..Len(ents) : EntryStart(ents, i) = offset
    THEN LET i == CHOOSE j \in 1..Len(ents) : EntryStart(ents, j) = offset
             e == ents[i]
         IN  IF e.torn = 0
             THEN [err |-> "ok", record |-> e, size |-> EncodedLength(e)]
             ELSE IF e.torn < 0 THEN ReadErr("FailToReadFromDataFile")
             ELSE IF e.torn = 1 /\ i = Len(ents) THEN ReadErr("ReadEOF")
             ELSE ReadErr("DatabaseFileCorrupted")
    ELSE ReadErr("DatabaseFileCorrupted")

(***************************************************************************)
(* The same codec on bytes: LogRecord::encode with its checksum, and        *)
(* DataFile::read_log_record over the bytes of a file.                     *)
(***************************************************************************)
\* A 32-bit word is kept as the set of the positions of its one bits.
Pow2(n) == IF n = 0 THEN 1 ELSE IF n = 1 THEN 2 ELSE IF n = 2 THEN 4
           ELSE IF n = 3 THEN 8 ELSE IF n = 4 THEN 16 ELSE IF n = 5 THEN 32
           ELSE IF n = 6 THEN 64 ELSE 128

ByteBits(v) == {j \in 0..7 : (v \div Pow2(j)) % 2 = 1}

Xor32(x, y) == (x \ y) \cup (y \ x)

ShiftRight1(x) == {j - 1 : j \in x \ {0}}

\* the reflected IEEE CRC-32 polynomial 0xEDB88320
CrcPoly == {31, 30, 29, 27, 26, 24, 23, 21, 20, 19, 15, 9, 8, 5}

\* one step per bit of the byte that was folded into the low end of the word
RECURSIVE CrcBits(_, _)
CrcBits(x, n) ==
    IF n = 0 THEN x
    ELSE IF 0 \in x THEN CrcBits(Xor32(ShiftRight1(x), CrcPoly), n - 1)
    ELSE CrcBits(ShiftRight1(x), n - 1)

\* the word after the bytes lo..hi of buf were folded in, in that order (the
\* range is halved, and x is looked at first, so that the evaluation stays
\* shallow on long buffers)
RECURSIVE CrcUpdate(_, _, _, _)
CrcUpdate(x, buf, lo, hi) ==
    IF x = {32} \/ lo > hi THEN x
    ELSE IF lo = hi THEN CrcBits(Xor32(x, ByteBits(buf[lo])), 8)
    ELSE LET mid == (lo + hi) \div 2
         IN  CrcUpdate(CrcUpdate(x, buf, lo, mid), buf, mid + 1, hi)

\* the j-th byte (from the low end) of a word
WordByte(x, j) ==
    LET bits == {b \in 0..7 : (8 * j + b) \in x}
        RECURSIVE Sum(_)
        Sum(S) == IF S = {} THEN 0
                  ELSE LET b == CHOOSE c \in S : TRUE IN Pow2(b) + Sum(S \ {b})
    IN  Sum(bits)

\* crc32fast::hash followed by put_u32_le: the checksum as four bytes
Crc32Le(buf) ==
    LET r == (0..31) \ CrcUpdate(0..31, buf, 1, Len(buf))
    IN  <<WordByte(r, 0), WordByte(r, 1), WordByte(r, 2), WordByte(r, 3)>>

\* `record_type as u8`
TypeByte(record_type) == IF record_type = "Normal" THEN 1 ELSE 2

\* LogRecordType::from_u8; any other byte reaches unreachable!()
FromU8(v) == IF v = 1 THEN "Normal" ELSE IF v = 2 THEN "Deleted" ELSE "panic"

\* the bytes the checksum covers: type, key size, value size, key, value
EncodeCovered(record_type, key, value) ==
    <<TypeByte(record_type)>> \o EncodeLengthDelimiter(Len(key))
        \o EncodeLengthDelimiter(Len(value)) \o key \o value

\* LogRecord::encode
Encode(rec) ==
    LET buf == EncodeCovered(rec.record_type, rec.key, rec.value)
    IN  buf \o Crc32Le(buf)

\* log_record_max_size; length_delimiter_len(u32::MAX) is 5
LogRecordMaxSize == LOG_TYPE_FLAG_SIZE + 5 * 2 + LOG_CRC_SIZE

\* FileIO::read into a zeroed buffer of n bytes: read_at fills what the file
\* holds from the offset on and the rest stays zero
ReadAt(bytes, offset, n) ==
    [i \in 1..n |-> IF offset + i <= Len(bytes) THEN bytes[offset + i] ELSE 0]

ReadBytesErr(e) == [err |-> e, record_type |-> "none", key |-> <<>>,
                    value |-> <<>>, size |-> 0]

\* variant: the size leaves out the checksum
RecordSizeWithoutCrc(header_size, key_size, value_size) ==
    header_size + key_size + value_size

\* ReadLogRecord.size: `actual_header_size + key_size + value_size + LOG_CRC_SIZE`
RecordSize(header_size, key_size, value_size) ==
    header_size + key_size + value_size + LOG_CRC_SIZE

\* DataFile::read_log_record on the bytes of a file.  The record is built,
\* and its type byte decoded, before the checksum is compared.
ReadLogRecordBytes(bytes, offset) ==
    LET header_buf == ReadAt(bytes, offset, LogRecordMaxSize)
        record_type == header_buf[1]
        k == DecodeLengthDelimiter(Tail(header_buf))
        afterKey == SubSeq(header_buf, 2 + k.used, Len(header_buf))
        v == DecodeLengthDelimiter(afterKey)
        key_size == k.value
        value_size == v.value
        actual_header_size == LOG_TYPE_FLAG_SIZE + LengthDelimiterLen(key_size)
                                 + LengthDelimiterLen(value_size)
        kv_buffer == ReadAt(bytes, offset + actual_header_size,
                            key_size + value_size + LOG_CRC_SIZE)
        key == SubSeq(kv_buffer, 1, key_size)
        value == SubSeq(kv_buffer, key_size + 1, key_size + value_size)
        crc == SubSeq(kv_buffer, key_size + value_size + 1, Len(kv_buffer))
    IN  IF k.used = 0 \/ v.used = 0 THEN ReadBytesErr("DatabaseFileCorrupted")
        ELSE IF key_size = 0 /\ value_size = 0 THEN ReadBytesErr("ReadEOF")
        ELSE IF FromU8(record_type) = "panic" THEN ReadBytesErr("panic")
        ELSE IF crc # Crc32Le(EncodeCovered(FromU8(record_type), key, value))
        THEN ReadBytesErr("DatabaseFileCorrupted")
        ELSE [err |-> "ok", record_type |-> FromU8(record_type), key |-> key,
              value |-> value,
              size |-> RecordSize(actual_header_size, key_size, value_size)]

\* DataFile: the handle the engine keeps for one file
DataFile(fid, offset) == [file_id |-> fid, write_offset |-> offset]

LogRecordPos(fid, offset) == [file_id |-> fid, offset |-> offset]

\* DataFile::sync / FileIO::sync: everything written to the file is durable
SyncFile(d, fid) == [d EXCEPT ![fid + 1].synced = Len(d[fid + 1].ents)]

\* DataFile::write / FileIO::write: the bytes go to the end of the file
\* (the file is opened in append mode) and the cursor moves by their count
WriteFile(d, fid, rec) == [d EXCEPT ![fid + 1].ents = Append(@, rec)]

\* DataFile::new opens the file of that id, creating it when missing
NewDataFile(d, fid) == IF fid + 1 <= Len(d) THEN d ELSE Append(d, EmptyFile)

(***************************************************************************)
(* Engine::append_log_record on a store s = [disk, active_file, old_files] *)
(* returns the store after the append and the position of the record.      *)
(***************************************************************************)
\* variant: a record that fills the segment exactly moves to the next one
RotatesWhenFull(offset, len) == offset + len >= DatafileSize

\* `active_file.get_offset() + encode_log.len() > self.options.datafile_size`
Rotates(offset, len) == offset + len > DatafileSize

\* variant: the offset is read before the rotation instead of after it
AppendLogRecordOffsetBeforeRotate(s, rec) ==
    LET len == EncodedLength(rec)
        rotate == Rotates(s.active_file.write_offset, len)
        fid == IF rotate THEN s.active_file.file_id + 1 ELSE s.active_file.file_id
        d1 == IF rotate
              THEN NewDataFile(SyncFile(s.disk, s.active_file.file_id), fid)
              ELSE s.disk
        old == IF rotate
               THEN [f \in DOMAIN s.old_files \cup {s.active_file.file_id} |->
                        IF f = s.active_file.file_id
                        THEN s.active_file.write_offset ELSE s.old_files[f]]
               ELSE s.old_files
        offset == IF rotate THEN 0 ELSE s.active_file.write_offset
        d2 == WriteFile(d1, fid, rec)
        d3 == IF SyncInWrite THEN SyncFile(d2, fid) ELSE d2
    IN  [disk |-> d3,
         active_file |-> DataFile(fid, offset + len),
         old_files |-> old,
         pos |-> LogRecordPos(fid, s.active_file.write_offset)]

AppendLogRecord(s, rec) ==
    LET len == EncodedLength(rec)
        rotate == Rotates(s.active_file.write_offset, len)
        fid == IF rotate THEN s.active_file.file_id + 1 ELSE s.active_file.file_id
        d1 == IF rotate
              THEN NewDataFile(SyncFile(s.disk, s.active_file.file_id), fid)
              ELSE s.disk
        old == IF rotate
               THEN [f \in DOMAIN s.old_files \cup {s.active_file.file_id} |->
                        IF f = s.active_file.file_id
                        THEN s.active_file.write_offset ELSE s.old_files[f]]
               ELSE s.old_files
        offset == IF rotate THEN 0 ELSE s.active_file.write_offset
        d2 == WriteFile(d1, fid, rec)
        d3 == IF SyncInWrite THEN SyncFile(d2, fid) ELSE d2
    IN  [disk |-> d3,
         active_file |-> DataFile(fid, offset + len),
         old_files |-> old,
         pos |-> LogRecordPos(fid, offset)]


(***************************************************************************)
(* BTreeIndexer: the keydir, a map from user key to record position.       *)
(***************************************************************************)
IndexerPut(tree, key, pos) ==
    [k \in DOMAIN tree \cup {key} |-> IF k = key THEN pos ELSE tree[k]]

IndexerDelete(tree, key) == [k \in DOMAIN tree \ {key} |-> tree[k]]

IndexerHas(tree, key) == key \in DOMAIN tree

EmptyIndexer == [k \in {} |-> LogRecordPos(0, 0)]

\* BTreeMap::iter: the entries in ascending key order
RECURSIVE BTreeIter(_)
BTreeIter(tree) ==
    IF DOMAIN tree = {} THEN <<>>
    ELSE LET first == CHOOSE k \in DOMAIN tree :
                        \A j \in DOMAIN tree \ {k} : BytesLess(k, j)
         IN  <<[key |-> first, pos |-> tree[first]]>>
                 \o BTreeIter(IndexerDelete(tree, first))

RECURSIVE SelectPrefix(_, _)
SelectPrefix(items, prefix) ==
    IF items = <<>> THEN <<>>
    ELSE (IF StartsWith(Head(items).key, prefix) THEN <<Head(items)>> ELSE <<>>)
            \o SelectPrefix(Tail(items), prefix)

Reverse(items) == [i \in 1..Len(items) |-> items[Len(items) + 1 - i]]

IndexIteratorOptions(prefix, reverse) == [prefix |-> prefix, reverse |-> reverse]

\* variant: options.reverse is ignored
IndexerIteratorForwardOnly(tree, options) ==
    SelectPrefix(BTreeIter(tree), options.prefix)

\* BTreeIndexer::iterator: the items of the snapshot, in the order next() yields
\* them from pos 0
IndexerIterator(tree, options) ==
    LET items == SelectPrefix(BTreeIter(tree), options.prefix)
    IN  IF options.reverse THEN Reverse(items) ELSE items

\* Indexer::list_keys
IndexerListKeys(tree) == [i \in 1..Len(BTreeIter(tree)) |-> BTreeIter(tree)[i].key]

\* BtreeIndexIterator: the collected items, the 0-based position of the item
\* next() returns, and the options the iterator was created with
BtreeIndexIterator(items, pos, options) ==
    [items |-> items, pos |-> pos, options |-> options]

\* x.as_slice().cmp(key): the lexicographic order of two byte strings
BytesCmp(x, key) ==
    IF x = key THEN "Equal"
    ELSE IF BytesLess(x, key) THEN "Less"
    ELSE "Greater"

\* Ordering::reverse
OrderingReverse(order) ==
    CASE order = "Less" -> "Greater"
      [] order = "Greater" -> "Less"
      [] OTHER -> "Equal"

\* variant: the comparison is not reversed for a reverse iterator
SeekCompareNotReversed(options, x, key) == BytesCmp(x, key)

\* the closure seek() hands to binary_search_by
SeekCompare(options, x, key) ==
    IF options.reverse THEN OrderingReverse(BytesCmp(x, key))
    ELSE BytesCmp(x, key)

\* slice::binary_search_by over items[left..right) (0-based): the index of an
\* item that compares Equal, else the index where the probe would be inserted
RECURSIVE BinarySearchBy(_, _, _, _, _)
BinarySearchBy(items, options, key, left, right) ==
    IF left >= right THEN left
    ELSE LET mid == left + ((right - left) \div 2)
             order == SeekCompare(options, items[mid + 1].key, key)
         IN  CASE order = "Equal" -> mid
               [] order = "Less" ->
                    BinarySearchBy(items, options, key, mid + 1, right)
               [] OTHER -> BinarySearchBy(items, options, key, left, mid)

\* BtreeIndexIterator::rewind
IndexIteratorRewind(it) == [it EXCEPT !.pos = 0]

\* BtreeIndexIterator::seek
IndexIteratorSeek(it, key) ==
    [it EXCEPT !.pos = BinarySearchBy(it.items, it.options, key, 0, Len(it.items))]

\* BtreeIndexIterator::next: the item at pos, if any, and the advanced iterator
IndexIteratorNext(it) ==
    IF it.pos >= Len(it.items)
    THEN [some |-> FALSE, item |-> [key |-> <<>>, pos |-> LogRecordPos(0, 0)],
          it |-> it]
    ELSE [some |-> TRUE, item |-> it.items[it.pos + 1],
          it |-> [it EXCEPT !.pos = it.pos + 1]]

(***************************************************************************)
(* Engine::load_index_from_data_files.  acc carries the keydir, the        *)
(* commit_tasks table, the error if any, the scan offset, and (for the     *)
(* properties only) the positions of the batch records the replay applied. *)
(***************************************************************************)
TaskPush(tasks, id, item) ==
    [t \in DOMAIN tasks \cup {id} |->
        IF t = id
        THEN (IF id \in DOMAIN tasks THEN Append(tasks[id], item) ELSE <<item>>)
        ELSE tasks[t]]

\* variant: the staging table is keyed by the sequence id alone
TaskIdSeqOnly(key) == <<<<>>, key.seq_id>>

\* the key of commit_tasks: (key.prefix, key.seq_id)
TaskId(key) == <<key.prefix, key.seq_id>>

\* variant: a terminator that finds nothing staged commits an empty task
TaskTakeOrEmpty(tasks, id) ==
    [found |-> TRUE, task |-> IF id \in DOMAIN tasks THEN tasks[id] ELSE <<>>]

\* commit_tasks.remove(&id): the staged task, if there is one
TaskTake(tasks, id) ==
    [found |-> id \in DOMAIN tasks,
     task |-> IF id \in DOMAIN tasks THEN tasks[id] ELSE <<>>]

\* the try_for_each over one removed commit task
RECURSIVE ApplyTask(_, _)
ApplyTask(tree, task) ==
    IF task = <<>> THEN tree
    ELSE ApplyTask(IF Head(task).record_type = "Normal"
                   THEN IndexerPut(tree, Head(task).key, Head(task).pos)
                   ELSE IndexerDelete(tree, Head(task).key),
                   Tail(task))

\* variant: a batch member is applied when it is read, not at its terminator
ReplayRecordEager(acc, rec, key, pos) ==
    LET id == <<key.prefix, key.seq_id>>
    IN  IF rec.record_type = "Normal"
        THEN [acc EXCEPT !.indexer = IndexerPut(@, key.key, pos),
                         !.applied = IF key.seq_id = NON_BATCH_COMMIT_ID
                                     THEN @ ELSE @ \cup {pos}]
        ELSE IF rec.record_type = "Deleted"
        THEN IF key.seq_id = NON_BATCH_COMMIT_ID
             THEN IF IndexerHas(acc.indexer, key.key)
                  THEN [acc EXCEPT !.indexer = IndexerDelete(@, key.key)]
                  ELSE [acc EXCEPT !.err = "FailToUpdateIndex"]
             ELSE [acc EXCEPT !.indexer = IndexerDelete(@, key.key),
                              !.applied = @ \cup {pos}]
        ELSE acc

\* the match on record_type for one record read at pos
ReplayRecord(acc, rec, key, pos) ==
    LET id == TaskId(key)
    IN  IF rec.record_type = "Normal"
        THEN IF key.seq_id = NON_BATCH_COMMIT_ID
             THEN [acc EXCEPT !.indexer = IndexerPut(@, key.key, pos)]
             ELSE [acc EXCEPT !.tasks = TaskPush(@, id,
                        [key |-> key.key, pos |-> pos, record_type |-> "Normal"])]
        ELSE IF rec.record_type = "Deleted"
        THEN IF key.seq_id = NON_BATCH_COMMIT_ID
             THEN IF IndexerHas(acc.indexer, key.key)
                  THEN [acc EXCEPT !.indexer = IndexerDelete(@, key.key)]
                  ELSE [acc EXCEPT !.err = "FailToUpdateIndex"]
             ELSE [acc EXCEPT !.tasks = TaskPush(@, id,
                        [key |-> key.key, pos |-> pos, record_type |-> "Deleted"])]
        ELSE LET taken == TaskTake(acc.tasks, id)
             IN  IF taken.found
                 THEN [acc EXCEPT
                         !.indexer = ApplyTask(@, taken.task),
                         !.applied = @ \cup {taken.task[i].pos : i \in DOMAIN taken.task},
                         !.tasks = [t \in DOMAIN acc.tasks \ {id} |-> acc.tasks[t]]]
                 ELSE [acc EXCEPT !.err = "DatabaseFileCorrupted"]

\* variant: every failed read ends the scan of the file like the end of file
ScanEndsAtAnyError(err) == err # "ok"

\* `if e == Errors::ReadEOF { break; }`: the one error that ends the scan of
\* a file; any other is returned
ScanEnds(err) == err = "ReadEOF"

\* the inner loop over the records of one file
RECURSIVE ReplayFile(_, _, _, _)
ReplayFile(d, fid, offset, acc) ==
    LET r == ReadLogRecord(d[fid + 1].ents, offset)
    IN  IF ScanEnds(r.err) THEN [acc EXCEPT !.offset = offset]
        ELSE IF r.err # "ok" THEN [acc EXCEPT !.err = r.err]
        ELSE LET key == LogRecordKeyParse(r.record.key)
             IN  IF key.err # "ok" THEN [acc EXCEPT !.err = key.err]
                 ELSE LET next == ReplayRecord(acc, r.record, key,
                                               LogRecordPos(fid, offset))
                      IN  IF next.err # "ok" THEN next
                          ELSE ReplayFile(d, fid, offset + r.size, next)

\* variant: commit_tasks is scoped to one file and starts empty at the next
NextFileFreshTasks(acc) == [acc EXCEPT !.tasks = [t \in {} |-> <<>>]]

\* commit_tasks is declared before the loop over file_ids: what one file
\* staged is still there when the next file is read
NextFile(acc) == acc

\* the outer loop over file_ids in ascending order
RECURSIVE ReplayFiles(_, _, _)
ReplayFiles(d, fid, acc) ==
    IF fid >= Len(d) THEN acc
    ELSE LET r == ReplayFile(d, fid, 0, acc)
         IN  IF r.err # "ok" THEN r ELSE ReplayFiles(d, fid + 1, NextFile(r))

LoadIndexFromDataFiles(d) ==
    ReplayFiles(d, 0, [err |-> "ok", indexer |-> EmptyIndexer,
                       tasks |-> [t \in {} |-> <<>>], applied |-> {},
                       offset |-> 0])

\* file_ids.sort(): insertion of each listed id into the sorted ids so far
RECURSIVE InsertSorted(_, _)
InsertSorted(sorted, fid) ==
    IF sorted = <<>> THEN <<fid>>
    ELSE IF fid <= Head(sorted) THEN <<fid>> \o sorted
    ELSE <<Head(sorted)>> \o InsertSorted(Tail(sorted), fid)

RECURSIVE InsertAllSorted(_)
InsertAllSorted(listing) ==
    IF listing = <<>> THEN <<>>
    ELSE InsertSorted(InsertAllSorted(Tail(listing)), Head(listing))

\* variant: the ids stay in the order the directory listed them
ListedFileIds(listing) == listing

\* load_datafiles: the ids of the listed data files, sorted
SortFileIds(listing) == InsertAllSorted(listing)

\* the outer loop of load_index_from_data_files over the given file_ids
RECURSIVE ReplayFileIds(_, _, _)
ReplayFileIds(d, fids, acc) ==
    IF fids = <<>> THEN acc
    ELSE LET r == ReplayFile(d, Head(fids), 0, acc)
         IN  IF r.err # "ok" THEN r ELSE ReplayFileIds(d, Tail(fids), NextFile(r))

\* one run of Engine::open on the directory d whose read_dir lists the data
\* files in the order `listing`, started at time `now`
OpenRun(d, listing, now) ==
    LET r == ReplayFileIds(d, SortFileIds(listing),
                           [err |-> "ok", indexer |-> EmptyIndexer,
                            tasks |-> [t \in {} |-> <<>>], applied |-> {},
                            offset |-> 0])
    IN  [err |-> r.err,
         indexer |-> IF r.err = "ok" THEN r.indexer ELSE EmptyIndexer,
         offset |-> r.offset,
         batch_prefix |-> GenerateNanoTimestampPrefix(now)]

\* load_datafiles: the files of the directory, segment 0 created when none
LoadDatafiles(d) == IF d = <<>> THEN <<EmptyFile>> ELSE d


(***************************************************************************)
(* State.                                                                  *)
(***************************************************************************)
VARIABLES
    disk,             \* the directory: file id f is disk[f + 1]
    status,           \* "open", "closed", "crashed" or "failed" (open returned Err)
    active_file,      \* Engine.active_file
    old_files,        \* Engine.old_files: file id -> write_offset of its handle
    indexer,          \* Engine.indexer
    batch_prefix,     \* Engine.batch_prefix
    batch_commit_id,  \* Engine.batch_commit_id
    clock,            \* number of Engine::open calls so far (the clock reading)
    batch_live,       \* a WriteBatch exists
    pending_batch,    \* WriteBatch.pending_batch
    result,           \* what the last call returned
    last,             \* per key, the last successful mutation that touched it
    view,             \* per key, what get returned just before close
    dirty,            \* keys mutated since the last sync or open
    applied,          \* positions of the batch records the last open applied
    iter,             \* the iterator in use, NoIter when there is none
    inflight,         \* per thread, the call in flight and how far it got
    raw               \* one data file as bytes, and the last read_log_record on it

Ok(value) == [err |-> "ok", value |-> value]
Err(e) == [err |-> e, value |-> <<>>]

vars == <<disk, status, active_file, old_files, indexer, batch_prefix,
          batch_commit_id, clock, batch_live, pending_batch, result,
          last, view, dirty, applied, iter, inflight, raw>>

\* the engine of this session accepts calls
InSession == status = "open" /\ clock <= MaxSessions

NoView == [k \in Keys |-> Err("none")]

\* the threads that call into one engine
Threads == { "t1", "t2" }

\* a thread between calls
NoCall ==
    [pc |-> "idle", key |-> <<>>, pos |-> [file_id |-> 0, offset |-> 0],
     batch |-> <<>>, seq_id |-> 0, todo |-> <<>>, poss |-> <<>>]

NoCalls == [t \in Threads |-> NoCall]

\* no file is held as bytes
NoRead == [at |-> 0, err |-> "none", record_type |-> "none", key |-> <<>>,
           value |-> <<>>, size |-> 0]
NoRaw == [bytes |-> <<>>, starts |-> <<>>, hit |-> 0, out |-> NoRead]

\* no iterator is in use; `live` tells an iterator in use from this value and
\* `yields` records what the iterator was going to yield when it was created
NoIter ==
    [live |-> FALSE, items |-> <<>>, pos |-> 0,
     options |-> IndexIteratorOptions(<<>>, FALSE), yields |-> <<>>,
     sought |-> [some |-> FALSE, key |-> <<>>], yielded |-> <<>>,
     out |-> [err |-> "ok", some |-> FALSE, key |-> <<>>, value |-> <<>>]]

engineVars == <<disk, status, active_file, old_files, indexer, batch_prefix,
                batch_commit_id, clock>>

Store == [disk |-> disk, active_file |-> active_file, old_files |-> old_files]

RECURSIVE TotalEntries(_)
TotalEntries(d) ==
    IF d = <<>> THEN 0 ELSE Len(Head(d).ents) + TotalEntries(Tail(d))

EmptyBatch == [k \in {} |-> LogRecord("Normal", <<>>, <<>>)]

(***************************************************************************)
(* Reads.                                                                  *)
(***************************************************************************)
\* Engine::get_by_position
GetByPosition(s, pos) ==
    IF s.active_file.file_id = pos.file_id \/ pos.file_id \in DOMAIN s.old_files
    THEN LET r == ReadLogRecord(s.disk[pos.file_id + 1].ents, pos.offset)
         IN  IF r.err # "ok" THEN Err(r.err)
             ELSE IF r.record.record_type = "Deleted" THEN Err("KeyNotFound")
             ELSE Ok(r.record.value)
    ELSE Err("DataFileNotFound")

\* Engine::get
EngineGet(s, tree, key) ==
    IF key = <<>> THEN Err("EmptyKey")
    ELSE IF key \in DOMAIN tree THEN GetByPosition(s, tree[key])
    ELSE Err("KeyNotFound")

Get(key) == EngineGet(Store, indexer, key)

\* variant: the engine is consulted before the staging map
WriteBatchGetEngineFirst(pending, s, tree, key) ==
    IF EngineGet(s, tree, key).err = "ok" THEN EngineGet(s, tree, key)
    ELSE IF key \in DOMAIN pending /\ pending[key].record_type = "Normal"
    THEN Ok(pending[key].value)
    ELSE Err("KeyNotFound")

\* WriteBatch::get
WriteBatchGet(pending, s, tree, key) ==
    IF key \in DOMAIN pending
    THEN IF pending[key].record_type = "Normal"
         THEN Ok(pending[key].value)
         ELSE Err("KeyNotFound")
    ELSE EngineGet(s, tree, key)

BatchGet(key) == WriteBatchGet(pending_batch, Store, indexer, key)

GetView == [k \in Keys |-> Get(k)]

(***************************************************************************)
(* Init: Engine::open on an empty directory has returned.                  *)
(***************************************************************************)
NoMutation == [op |-> "none", value |-> <<>>]

Init ==
    /\ disk = <<EmptyFile>>
    /\ status = "open"
    /\ active_file = DataFile(INITAIL_FILE_ID, 0)
    /\ old_files = [f \in {} |-> 0]
    /\ indexer = EmptyIndexer
    /\ batch_prefix = GenerateNanoTimestampPrefix(1)
    /\ batch_commit_id = 1
    /\ clock = 1
    /\ batch_live = FALSE
    /\ pending_batch = EmptyBatch
    /\ result = "Ok"
    /\ last = [k \in Keys |-> NoMutation]
    /\ view = NoView
    /\ dirty = {}
    /\ applied = {}
    /\ iter = NoIter
    /\ inflight = NoCalls
    /\ raw = NoRaw

(***************************************************************************)
(* Engine::put                                                             *)
(***************************************************************************)
\* the early return of a call with an empty key: Err(EmptyKey), nothing changed
EmptyKeyRejected ==
    /\ result' = "EmptyKey"
    /\ UNCHANGED <<engineVars, batch_live, pending_batch, last, view, dirty,
                   applied>>

\* variant: put appends without looking at the key
PutEmptyKeyUnchecked(key, value) ==
    /\ InSession
    /\ UNCHANGED <<iter, inflight, raw>>
    /\ TotalEntries(disk) + 1 <= MaxRecords
    /\ LET rec == LogRecord("Normal",
                     LogRecordKeyWithSequence(key, NON_TXN_PREFIX, NON_BATCH_COMMIT_ID),
                     value)
           a == AppendLogRecord(Store, rec)
       IN  /\ disk' = a.disk
           /\ active_file' = a.active_file
           /\ old_files' = a.old_files
           /\ indexer' = IndexerPut(indexer, key, a.pos)
    /\ result' = "Ok"
    /\ last' = [last EXCEPT ![key] = [op |-> "put", value |-> value]]
    /\ dirty' = dirty \cup {key}
    /\ UNCHANGED <<status, batch_prefix, batch_commit_id, clock, batch_live,
                   pending_batch, view, applied>>

Put(key, value) ==
    /\ InSession
    /\ UNCHANGED <<iter, inflight, raw>>
    /\ IF key = <<>> THEN EmptyKeyRejected
       ELSE /\ TotalEntries(disk) + 1 <= MaxRecords
            /\ LET rec == LogRecord("Normal",
                             LogRecordKeyWithSequence(key, NON_TXN_PREFIX, NON_BATCH_COMMIT_ID),
                             value)
                   a == AppendLogRecord(Store, rec)
               IN  /\ disk' = a.disk
                   /\ active_file' = a.active_file
                   /\ old_files' = a.old_files
                   /\ indexer' = IndexerPut(indexer, key, a.pos)
            /\ result' = "Ok"
            /\ last' = [last EXCEPT ![key] = [op |-> "put", value |-> value]]
            /\ dirty' = dirty \cup {key}
            /\ UNCHANGED <<status, batch_prefix, batch_commit_id, clock, batch_live,
                           pending_batch, view, applied>>

(***************************************************************************)
(* Engine::delete                                                          *)
(***************************************************************************)
\* variant: the tombstone is appended whether or not the keydir holds the key
DeleteAlwaysAppends(key) ==
    /\ InSession
    /\ UNCHANGED <<iter, inflight, raw>>
    /\ IF key = <<>> THEN EmptyKeyRejected
       ELSE /\ IF TRUE
               THEN /\ TotalEntries(disk) + 1 <= MaxRecords
                    /\ LET rec == LogRecord("Deleted",
                             LogRecordKeyWithSequence(key, NON_TXN_PREFIX, NON_BATCH_COMMIT_ID),
                             <<>>)
                           a == AppendLogRecord(Store, rec)
                       IN  /\ disk' = a.disk
                           /\ active_file' = a.active_file
                           /\ old_files' = a.old_files
                           /\ indexer' = IndexerDelete(indexer, key)
               ELSE UNCHANGED <<disk, active_file, old_files, indexer>>
            /\ result' = "Ok"
            /\ last' = [last EXCEPT ![key] = [op |-> "delete", value |-> <<>>]]
            /\ dirty' = dirty \cup {key}
            /\ UNCHANGED <<status, batch_prefix, batch_commit_id, clock, batch_live,
                           pending_batch, view, applied>>

Delete(key) ==
    /\ InSession
    /\ UNCHANGED <<iter, inflight, raw>>
    /\ IF key = <<>> THEN EmptyKeyRejected
       ELSE /\ IF IndexerHas(indexer, key)
               THEN /\ TotalEntries(disk) + 1 <= MaxRecords
                    /\ LET rec == LogRecord("Deleted",
                             LogRecordKeyWithSequence(key, NON_TXN_PREFIX, NON_BATCH_COMMIT_ID),
                             <<>>)
                           a == AppendLogRecord(Store, rec)
                       IN  /\ disk' = a.disk
                           /\ active_file' = a.active_file
                           /\ old_files' = a.old_files
                           /\ indexer' = IndexerDelete(indexer, key)
               ELSE UNCHANGED <<disk, active_file, old_files, indexer>>
            /\ result' = "Ok"
            /\ last' = [last EXCEPT ![key] = [op |-> "delete", value |-> <<>>]]
            /\ dirty' = dirty \cup {key}
            /\ UNCHANGED <<status, batch_prefix, batch_commit_id, clock, batch_live,
                           pending_batch, view, applied>>

(***************************************************************************)
(* Engine::sync, Engine::close (the engine is dropped after close)         *)
(***************************************************************************)
Sync ==
    /\ InSession
    /\ UNCHANGED <<iter, inflight, raw>>
    /\ disk' = SyncFile(disk, active_file.file_id)
    /\ result' = "Ok"
    /\ dirty' = {}
    /\ UNCHANGED <<status, active_file, old_files, indexer, batch_prefix,
                   batch_commit_id, clock, batch_live, pending_batch, last, view,
                   applied>>

Close ==
    /\ InSession
    /\ iter' = NoIter
    /\ UNCHANGED <<inflight, raw>>
    /\ disk' = SyncFile(disk, active_file.file_id)
    /\ status' = "closed"
    /\ active_file' = DataFile(0, 0)
    /\ old_files' = [f \in {} |-> 0]
    /\ indexer' = EmptyIndexer
    /\ batch_prefix' = <<>>
    /\ batch_commit_id' = 0
    /\ batch_live' = FALSE
    /\ pending_batch' = EmptyBatch
    /\ result' = "Ok"
    /\ view' = GetView
    /\ dirty' = {}
    /\ applied' = {}
    /\ UNCHANGED <<clock, last>>


\* after a crash the history of a key is what the recovered engine holds
Recovered(d, af, old, tree) ==
    [k \in Keys |->
        LET g == EngineGet([disk |-> d, active_file |-> af, old_files |-> old],
                           tree, k)
        IN  IF g.err = "ok" THEN [op |-> "recovered", value |-> g.value]
            ELSE NoMutation]

(***************************************************************************)
(* Engine::open on the directory as it is.                                 *)
(***************************************************************************)
Open ==
    /\ status \in {"closed", "crashed"}
    /\ iter' = NoIter
    /\ UNCHANGED <<inflight, raw>>
    /\ clock <= MaxSessions
    /\ LET d == LoadDatafiles(disk)
           r == LoadIndexFromDataFiles(d)
           af == DataFile(Len(d) - 1, r.offset)
           old == [f \in 0..(Len(d) - 2) |-> 0]
       IN  /\ disk' = d
           /\ clock' = clock + 1
           /\ IF r.err = "ok"
              THEN /\ status' = "open"
                   /\ active_file' = af
                   /\ old_files' = old
                   /\ indexer' = r.indexer
                   /\ batch_prefix' = GenerateNanoTimestampPrefix(clock + 1)
                   /\ batch_commit_id' = 1
                   /\ result' = "Ok"
              ELSE /\ status' = "failed"
                   /\ active_file' = DataFile(0, 0)
                   /\ old_files' = [f \in {} |-> 0]
                   /\ indexer' = EmptyIndexer
                   /\ batch_prefix' = <<>>
                   /\ batch_commit_id' = 0
                   /\ result' = r.err
           /\ applied' = r.applied
    /\ view' = NoView
    /\ dirty' = {}
    /\ last' = IF status = "crashed" THEN Recovered(disk', active_file', old_files',
                                                  indexer')
               ELSE last
    /\ UNCHANGED <<batch_live, pending_batch>>

(***************************************************************************)
(* Engine::write_batch, dropping a WriteBatch, WriteBatch::put             *)
(***************************************************************************)
NewWriteBatch ==
    /\ InSession
    /\ UNCHANGED <<iter, inflight, raw>>
    /\ ~batch_live
    /\ batch_live' = TRUE
    /\ pending_batch' = EmptyBatch
    /\ result' = "Ok"
    /\ UNCHANGED <<engineVars, last, view, dirty, applied>>

DropBatch ==
    /\ InSession
    /\ UNCHANGED <<iter, inflight, raw>>
    /\ batch_live
    /\ batch_live' = FALSE
    /\ pending_batch' = EmptyBatch
    /\ result' = "Ok"
    /\ UNCHANGED <<engineVars, last, view, dirty, applied>>

\* variant: put stages the record and also writes it through the engine
BatchPutWriteThrough(key, value) ==
    /\ InSession
    /\ UNCHANGED <<iter, inflight, raw>>
    /\ batch_live
    /\ TotalEntries(disk) + 1 <= MaxRecords
    /\ pending_batch' = [k \in DOMAIN pending_batch \cup {key} |->
                            IF k = key THEN LogRecord("Normal", key, value)
                            ELSE pending_batch[k]]
    /\ LET rec == LogRecord("Normal",
                     LogRecordKeyWithSequence(key, NON_TXN_PREFIX, NON_BATCH_COMMIT_ID),
                     value)
           a == AppendLogRecord(Store, rec)
       IN  /\ disk' = a.disk
           /\ active_file' = a.active_file
           /\ old_files' = a.old_files
           /\ indexer' = IndexerPut(indexer, key, a.pos)
    /\ result' = "Ok"
    /\ UNCHANGED <<status, batch_prefix, batch_commit_id, clock, batch_live, last,
                   view, dirty, applied>>

BatchPut(key, value) ==
    /\ InSession
    /\ UNCHANGED <<iter, inflight, raw>>
    /\ batch_live
    /\ IF key = <<>> THEN EmptyKeyRejected
       ELSE /\ pending_batch' = [k \in DOMAIN pending_batch \cup {key} |->
                                    IF k = key THEN LogRecord("Normal", key, value)
                                    ELSE pending_batch[k]]
            /\ result' = "Ok"
            /\ UNCHANGED <<engineVars, batch_live, last, view, dirty, applied>>

(***************************************************************************)
(* WriteBatch::delete                                                      *)
(***************************************************************************)
\* the staging map after delete(key), has_key being engine.get(key).is_ok()
StageDelete(pending, key, has_key) ==
    IF key \notin DOMAIN pending
    THEN [k \in DOMAIN pending \cup {key} |->
            IF k = key THEN LogRecord("Deleted", key, <<>>) ELSE pending[k]]
    ELSE IF pending[key].record_type = "Normal"
    THEN IF has_key
         THEN [pending EXCEPT ![key] = LogRecord("Deleted", key, <<>>)]
         ELSE [k \in DOMAIN pending \ {key} |-> pending[k]]
    ELSE pending

BatchDelete(key) ==
    /\ InSession
    /\ UNCHANGED <<iter, inflight, raw>>
    /\ batch_live
    /\ IF key = <<>> THEN EmptyKeyRejected
       ELSE /\ LET g == Get(key)
               IN  IF g.err \in {"ok", "KeyNotFound"}
                   THEN /\ pending_batch' = StageDelete(pending_batch, key, g.err = "ok")
                        /\ result' = "Ok"
                   ELSE /\ pending_batch' = pending_batch
                        /\ result' = g.err
            /\ UNCHANGED <<engineVars, batch_live, last, view, dirty, applied>>

(***************************************************************************)
(* WriteBatch::commit                                                      *)
(***************************************************************************)
\* the orders in which HashMap::values() can visit the staged records
Orders(pending) ==
    {o \in [1..Cardinality(DOMAIN pending) -> DOMAIN pending] :
        \A i, j \in DOMAIN o : i # j => o[i] # o[j]}

\* the records a commit appends: the members in visiting order, then the
\* terminator
CommitRecords(pending, order, prefix, seq_id) ==
    [i \in 1..Len(order) |->
        LogRecord(pending[order[i]].record_type,
                  LogRecordKeyWithSequence(pending[order[i]].key, prefix, seq_id),
                  pending[order[i]].value)]
    \o <<LogRecord("BatchCommit",
                   LogRecordKeyWithSequence(TXN_FIN_PREFIX, prefix, seq_id), <<>>)>>

\* successive append_log_record calls; poss collects the returned positions
RECURSIVE AppendAll(_, _)
AppendAll(s, recs) ==
    IF recs = <<>> THEN [store |-> s, poss |-> <<>>]
    ELSE LET a == AppendLogRecord(s, Head(recs))
             rest == AppendAll([disk |-> a.disk, active_file |-> a.active_file,
                                old_files |-> a.old_files], Tail(recs))
         IN  [store |-> rest.store, poss |-> <<a.pos>> \o rest.poss]

\* the "update index" pass of commit over record_pos
RECURSIVE CommitIndexUpdate(_, _, _, _)
CommitIndexUpdate(tree, pending, order, poss) ==
    IF order = <<>> THEN tree
    ELSE CommitIndexUpdate(IndexerPut(tree, Head(order), Head(poss)),
                           pending, Tail(order), Tail(poss))

\* variant: the counter is read and left as it is
FetchAddNothing(id) == id

\* batch_commit_id.fetch_add(1, Ordering::SeqCst): the counter after the call
\* (the call returns the counter before it, in one atomic step)
FetchAdd(id) == id + 1

\* variant: the sequence id is taken before the size of the batch is checked
CommitAllocatesBeforeSizeCheck(order) ==
    /\ InSession
    /\ UNCHANGED <<iter, inflight, raw>>
    /\ batch_live
    /\ order \in Orders(pending_batch)
    /\ IF pending_batch = EmptyBatch
       THEN /\ result' = "Ok"
            /\ UNCHANGED <<disk, active_file, old_files, indexer, batch_commit_id,
                           pending_batch, last, dirty>>
       ELSE IF Cardinality(DOMAIN pending_batch) > MaxBatchSize
       THEN /\ result' = "ExceedBatchMaxSize"
            /\ batch_commit_id' = FetchAdd(batch_commit_id)
            /\ UNCHANGED <<disk, active_file, old_files, indexer, pending_batch,
                           last, dirty>>
       ELSE /\ TotalEntries(disk) + Len(order) + 1 <= MaxRecords
            /\ LET recs == CommitRecords(pending_batch, order, batch_prefix,
                                         batch_commit_id)
                   a == AppendAll(Store, recs)
               IN  /\ disk' = a.store.disk
                   /\ active_file' = a.store.active_file
                   /\ old_files' = a.store.old_files
                   /\ indexer' = CommitIndexUpdate(indexer, pending_batch, order,
                                                   SubSeq(a.poss, 1, Len(order)))
            /\ batch_commit_id' = FetchAdd(batch_commit_id)
            /\ pending_batch' = EmptyBatch
            /\ result' = "Ok"
            /\ last' = [k \in Keys |->
                          IF k \in DOMAIN pending_batch
                          THEN IF pending_batch[k].record_type = "Normal"
                               THEN [op |-> "commit_put",
                                     value |-> pending_batch[k].value]
                               ELSE [op |-> "commit_delete", value |-> <<>>]
                          ELSE last[k]]
            /\ dirty' = dirty \cup DOMAIN pending_batch
    /\ UNCHANGED <<status, batch_prefix, clock, batch_live, view, applied>>

Commit(order) ==
    /\ InSession
    /\ UNCHANGED <<iter, inflight, raw>>
    /\ batch_live
    /\ order \in Orders(pending_batch)
    /\ IF pending_batch = EmptyBatch
       THEN /\ result' = "Ok"
            /\ UNCHANGED <<disk, active_file, old_files, indexer, batch_commit_id,
                           pending_batch, last, dirty>>
       ELSE IF Cardinality(DOMAIN pending_batch) > MaxBatchSize
       THEN /\ result' = "ExceedBatchMaxSize"
            /\ UNCHANGED <<disk, active_file, old_files, indexer, batch_commit_id,
                           pending_batch, last, dirty>>
       ELSE /\ TotalEntries(disk) + Len(order) + 1 <= MaxRecords
            /\ LET recs == CommitRecords(pending_batch, order, batch_prefix,
                                         batch_commit_id)
                   a == AppendAll(Store, recs)
               IN  /\ disk' = a.store.disk
                   /\ active_file' = a.store.active_file
                   /\ old_files' = a.store.old_files
                   /\ indexer' = CommitIndexUpdate(indexer, pending_batch, order,
                                                   SubSeq(a.poss, 1, Len(order)))
            /\ batch_commit_id' = FetchAdd(batch_commit_id)
            /\ pending_batch' = EmptyBatch
            /\ result' = "Ok"
            /\ last' = [k \in Keys |->
                          IF k \in DOMAIN pending_batch
                          THEN IF pending_batch[k].record_type = "Normal"
                               THEN [op |-> "commit_put",
                                     value |-> pending_batch[k].value]
                               ELSE [op |-> "commit_delete", value |-> <<>>]
                          ELSE last[k]]
            /\ dirty' = dirty \cup DOMAIN pending_batch
    /\ UNCHANGED <<status, batch_prefix, clock, batch_live, view, applied>>

(***************************************************************************)
(* Crash (power loss): every file keeps its fsynced entries; the file      *)
(* being appended to keeps in addition any number of the entries written   *)
(* since, and possibly the first bytes of the next one.                    *)
(***************************************************************************)
CrashFile(file, keep, torn) ==
    LET ents == SubSeq(file.ents, 1, keep)
                  \o (IF torn > 0
                      THEN <<[file.ents[keep + 1] EXCEPT !.torn = torn]>>
                      ELSE <<>>)
    IN  [ents |-> ents, synced |-> Len(ents)]

CrashDisk(d, fid, keep, torn) ==
    [i \in DOMAIN d |->
        IF i = fid + 1 THEN CrashFile(d[i], keep, torn)
        ELSE CrashFile(d[i], d[i].synced, 0)]

CanCrash(d, fid, keep, torn) ==
    /\ keep \in d[fid + 1].synced .. Len(d[fid + 1].ents)
    /\ torn \in 0..MaxTorn
    /\ torn > 0 => /\ keep < Len(d[fid + 1].ents)
                   /\ torn < EncodedLength(d[fid + 1].ents[keep + 1])

\* the process is gone; the power stays off until the clock's last reading,
\* so the engine that recovers is only read
EngineGone ==
    /\ status' = "crashed"
    /\ iter' = NoIter
    /\ UNCHANGED <<inflight, raw>>
    /\ active_file' = DataFile(0, 0)
    /\ old_files' = [f \in {} |-> 0]
    /\ indexer' = EmptyIndexer
    /\ batch_prefix' = <<>>
    /\ batch_commit_id' = 0
    /\ batch_live' = FALSE
    /\ pending_batch' = EmptyBatch
    /\ result' = "Ok"
    /\ applied' = {}
    /\ view' = NoView
    /\ clock' = IF clock < MaxSessions THEN MaxSessions ELSE clock

Crash ==
    /\ InSession
    /\ \E keep \in 0..Len(disk[active_file.file_id + 1].ents), torn \in 0..MaxTorn :
          /\ CanCrash(disk, active_file.file_id, keep, torn)
          /\ disk' = CrashDisk(disk, active_file.file_id, keep, torn)
    /\ EngineGone
    /\ last' = [k \in Keys |-> IF k \in dirty THEN NoMutation ELSE last[k]]
    /\ dirty' = dirty

\* a crash inside commit, after `done` of its append_log_record calls were
\* made; the last of these writes is whole, torn or lost (earlier crash points
\* and larger losses are the cases of a smaller `done` and of Crash)
CommitCrash(order, done) ==
    /\ InSession
    /\ batch_live
    /\ pending_batch # EmptyBatch
    /\ Cardinality(DOMAIN pending_batch) <= MaxBatchSize
    /\ order \in Orders(pending_batch)
    /\ done \in 1..(Len(order) + 1)
    /\ TotalEntries(disk) + done <= MaxRecords
    /\ LET recs == CommitRecords(pending_batch, order, batch_prefix, batch_commit_id)
           a == AppendAll(Store, SubSeq(recs, 1, done))
           fid == a.store.active_file.file_id
           len == Len(a.store.disk[fid + 1].ents)
       IN  \E keep \in {len - 1, len}, torn \in 0..MaxTorn :
             /\ CanCrash(a.store.disk, fid, keep, torn)
             /\ disk' = CrashDisk(a.store.disk, fid, keep, torn)
    /\ EngineGone
    /\ last' = [k \in Keys |->
                  IF k \in dirty \cup DOMAIN pending_batch THEN NoMutation ELSE last[k]]
    /\ dirty' = dirty \cup DOMAIN pending_batch

(***************************************************************************)
(* Specifications, all of single-threaded use.                             *)
(*   Spec:      engine and batch calls over sessions separated by close    *)
(*              and open, without power loss (sync then changes nothing    *)
(*              a call can observe and is left out; staged values are      *)
(*              drawn from CommitValues).                                  *)
(*   CrashSpec: one session with sync and power loss at any point, in or   *)
(*              between calls, followed by the recovering open.            *)
(*   BatchSpec: one session with every write batch call, including the     *)
(*              drop of a batch.                                           *)
(***************************************************************************)
Next ==
    \/ \E k \in Keys, v \in Values : Put(k, v)
    \/ \E k \in Keys : Delete(k)
    \/ Close
    \/ Open
    \/ NewWriteBatch
    \/ \E k \in Keys, v \in CommitValues : BatchPut(k, v)
    \/ \E k \in Keys : BatchDelete(k)
    \/ \E o \in Orders(pending_batch) : Commit(o)

Spec == Init /\ [][Next]_vars

CrashNext ==
    \/ \E k \in Keys, v \in CrashValues : Put(k, v)
    \/ \E k \in Keys : Delete(k)
    \/ Sync
    \/ Open
    \/ NewWriteBatch
    \/ \E k \in Keys, v \in CrashValues : BatchPut(k, v)
    \/ \E k \in Keys : BatchDelete(k)
    \/ \E o \in Orders(pending_batch) : Commit(o)
    \/ Crash
    \/ \E o \in Orders(pending_batch), done \in 1..(MaxBatchSize + 1) :
          CommitCrash(o, done)

CrashSpec == Init /\ [][CrashNext]_vars

BatchNext ==
    \/ \E k \in Keys, v \in Values : Put(k, v)
    \/ \E k \in Keys : Delete(k)
    \/ NewWriteBatch
    \/ DropBatch
    \/ \E k \in Keys, v \in Values : BatchPut(k, v)
    \/ \E k \in Keys : BatchDelete(k)
    \/ \E o \in Orders(pending_batch) : Commit(o)

BatchSpec == Init /\ [][BatchNext]_vars

\* ---------------------------------------------------------------------------
\* Iterators: the index iterator on its own and the engine iterator
\* ---------------------------------------------------------------------------

\* the keys, prefixes and probe keys the index iterator is exercised with
SeekKeys == { <<97>>, <<97, 98>>, <<98>>, <<98, 97>> }
SeekPrefixes == { <<>>, <<97>>, <<98>> }
SeekProbes == SeekKeys \cup { <<>>, <<97, 97>>, <<98, 98>>, <<99>> }

\* the outcome of one next(): Ok(Some((key, value))), Ok(None) or Err(e)
IterSome(key, value) == [err |-> "ok", some |-> TRUE, key |-> key, value |-> value]
IterNone == [err |-> "ok", some |-> FALSE, key |-> <<>>, value |-> <<>>]
IterErr(e) == [err |-> e, some |-> FALSE, key |-> <<>>, value |-> <<>>]

NoSeek == [some |-> FALSE, key |-> <<>>]

\* the iterator in use: the index iterator's fields, the list of outcomes it
\* was going to yield when it was created, the last probe sought, the keys
\* yielded since, and the outcome of the last next()
LiveIter(it, yields, sought, yielded, out) ==
    [live |-> TRUE, items |-> it.items, pos |-> it.pos, options |-> it.options,
     yields |-> yields, sought |-> sought, yielded |-> yielded, out |-> out]

\* variant: next() walks the keydir as it is now instead of the collected items
IteratorItemsLive(it, tree) == IndexerIterator(tree, it.options)

\* BtreeIndexIterator.items: the vector collected by BTreeIndexer::iterator
IteratorItems(it, tree) == it.items

\* Iterator::next on one item: the value is read through its position
IteratorRead(s, item) ==
    LET g == GetByPosition(s, item.pos)
    IN  IF g.err = "ok" THEN IterSome(item.key, g.value) ELSE IterErr(g.err)

\* the outcomes the successive next() calls of a fresh iterator produce
YieldAll(s, items) == [i \in 1..Len(items) |-> IteratorRead(s, items[i])]

\* BTreeIndexer::iterator on an index of its own
IndexIterator(prefix, reverse) ==
    /\ status = "index"
    /\ LET options == IndexIteratorOptions(prefix, reverse)
           items == IndexerIterator(indexer, options)
       IN  iter' = LiveIter(BtreeIndexIterator(items, 0, options), <<>>,
                            NoSeek, <<>>, IterNone)
    /\ UNCHANGED <<engineVars, batch_live, pending_batch, result, last, view,
                   dirty, applied, inflight, raw>>

\* BtreeIndexIterator::seek
IndexSeek(key) ==
    /\ status = "index"
    /\ iter.live
    /\ LET it == IndexIteratorSeek(
                    BtreeIndexIterator(IteratorItems(iter, indexer), iter.pos,
                                       iter.options), key)
       IN  iter' = [iter EXCEPT !.pos = it.pos,
                                !.sought = [some |-> TRUE, key |-> key],
                                !.yielded = <<>>,
                                !.out = IterNone]
    /\ UNCHANGED <<engineVars, batch_live, pending_batch, result, last, view,
                   dirty, applied, inflight, raw>>

\* BtreeIndexIterator::next
IndexNext ==
    /\ status = "index"
    /\ iter.live
    /\ LET n == IndexIteratorNext(
                    BtreeIndexIterator(IteratorItems(iter, indexer), iter.pos,
                                       iter.options))
       IN  iter' = [iter EXCEPT
                        !.pos = n.it.pos,
                        !.yielded = IF n.some THEN Append(@, n.item.key) ELSE @,
                        !.out = IF n.some THEN IterSome(n.item.key, <<>>)
                                ELSE IterNone]
    /\ UNCHANGED <<engineVars, batch_live, pending_batch, result, last, view,
                   dirty, applied, inflight, raw>>

\* BtreeIndexIterator::rewind
IndexRewind ==
    /\ status = "index"
    /\ iter.live
    /\ iter' = [iter EXCEPT !.pos = 0, !.sought = NoSeek, !.yielded = <<>>,
                            !.out = IterNone]
    /\ UNCHANGED <<engineVars, batch_live, pending_batch, result, last, view,
                   dirty, applied, inflight, raw>>

\* a BTreeIndexer holding any subset of SeekKeys, each at a position of its own
SeekKeydirs ==
    { [k \in S |-> LogRecordPos(0, Cardinality({j \in S : BytesLess(j, k)}))] :
        S \in SUBSET SeekKeys }

SeekInit ==
    /\ disk = <<EmptyFile>>
    /\ status = "index"
    /\ active_file = DataFile(INITAIL_FILE_ID, 0)
    /\ old_files = [f \in {} |-> 0]
    /\ indexer \in SeekKeydirs
    /\ batch_prefix = GenerateNanoTimestampPrefix(1)
    /\ batch_commit_id = 1
    /\ clock = 1
    /\ batch_live = FALSE
    /\ pending_batch = EmptyBatch
    /\ result = "Ok"
    /\ last = [k \in Keys |-> NoMutation]
    /\ view = NoView
    /\ dirty = {}
    /\ applied = {}
    /\ iter = NoIter
    /\ inflight = NoCalls
    /\ raw = NoRaw

SeekNext ==
    \/ \E p \in SeekPrefixes, r \in BOOLEAN : IndexIterator(p, r)
    \/ \E k \in SeekProbes : IndexSeek(k)
    \/ IndexNext
    \/ IndexRewind

SeekSpec == SeekInit /\ [][SeekNext]_vars

\* the loop of Engine::fold from the iterator's position on: the pairs handed
\* to f, where f answers false at its stop_at-th call (never when stop_at is 0)
\* and the loop also ends at the first next() that is not Ok(Some(..))
RECURSIVE FoldLoop(_, _, _, _)
FoldLoop(s, it, calls, stop_at) ==
    LET n == IndexIteratorNext(it)
        r == IteratorRead(s, n.item)
    IN  IF ~n.some \/ r.err # "ok" THEN <<>>
        ELSE <<[key |-> r.key, value |-> r.value]>>
                \o (IF calls + 1 = stop_at THEN <<>>
                    ELSE FoldLoop(s, n.it, calls + 1, stop_at))

\* Engine::fold: the pairs f is called with, in call order
EngineFold(s, tree, stop_at) ==
    LET options == IndexIteratorOptions(<<>>, FALSE)
    IN  FoldLoop(s, BtreeIndexIterator(IndexerIterator(tree, options), 0, options),
                 0, stop_at)

\* the options engine iterators are created with
IterOptions ==
    { IndexIteratorOptions(<<>>, FALSE), IndexIteratorOptions(<<>>, TRUE),
      IndexIteratorOptions(<<97, 98>>, FALSE) }

\* Engine::iterator
EngineIterator(options) ==
    /\ InSession
    /\ LET items == IndexerIterator(indexer, options)
       IN  iter' = LiveIter(BtreeIndexIterator(items, 0, options),
                            YieldAll(Store, items), NoSeek, <<>>, IterNone)
    /\ UNCHANGED <<engineVars, batch_live, pending_batch, result, last, view,
                   dirty, applied, inflight, raw>>

\* Iterator::seek
IterSeek(key) ==
    /\ InSession
    /\ iter.live
    /\ LET it == IndexIteratorSeek(
                    BtreeIndexIterator(IteratorItems(iter, indexer), iter.pos,
                                       iter.options), key)
       IN  iter' = [iter EXCEPT !.pos = it.pos, !.out = IterNone]
    /\ UNCHANGED <<engineVars, batch_live, pending_batch, result, last, view,
                   dirty, applied, inflight, raw>>

\* Iterator::next
IterNext ==
    /\ InSession
    /\ iter.live
    /\ LET n == IndexIteratorNext(
                    BtreeIndexIterator(IteratorItems(iter, indexer), iter.pos,
                                       iter.options))
       IN  iter' = [iter EXCEPT
                        !.pos = n.it.pos,
                        !.out = IF n.some THEN IteratorRead(Store, n.item)
                                ELSE IterNone]
    /\ UNCHANGED <<engineVars, batch_live, pending_batch, result, last, view,
                   dirty, applied, inflight, raw>>

\* Iterator::rewind
IterRewind ==
    /\ InSession
    /\ iter.live
    /\ iter' = [iter EXCEPT !.pos = 0, !.out = IterNone]
    /\ UNCHANGED <<engineVars, batch_live, pending_batch, result, last, view,
                   dirty, applied, inflight, raw>>

IterNextStep ==
    \/ \E k \in Keys, v \in CrashValues : Put(k, v)
    \/ \E k \in Keys : Delete(k)
    \/ NewWriteBatch
    \/ \E k \in Keys, v \in CommitValues : BatchPut(k, v)
    \/ \E order \in Orders(pending_batch) : Commit(order)
    \/ \E o \in IterOptions : EngineIterator(o)
    \/ \E k \in Keys : IterSeek(k)
    \/ IterNext
    \/ IterRewind

IterSpec == Init /\ [][IterNextStep]_vars

\* a value as long as the segment threshold: its record is longer than a
\* whole segment may be
LongValue == [i \in 1..DatafileSize |-> 1]

SizeNext ==
    \/ \E k \in Keys, v \in Values \cup {LongValue} : Put(k, v)
    \/ \E k \in Keys : Delete(k)

SizeSpec == Init /\ [][SizeNext]_vars

\* Engine::get as a call: only its result is kept
GetKey(key) ==
    /\ InSession
    /\ result' = (IF Get(key).err = "ok" THEN "Ok" ELSE Get(key).err)
    /\ UNCHANGED <<engineVars, batch_live, pending_batch, last, view, dirty,
                   applied, iter, inflight, raw>>

\* the keys callers pass, the empty key among them
KeysOrEmpty == Keys \cup { <<>> }

EmptyKeyNext ==
    \/ \E k \in KeysOrEmpty, v \in CrashValues : Put(k, v)
    \/ \E k \in KeysOrEmpty : GetKey(k)
    \/ \E k \in KeysOrEmpty : Delete(k)
    \/ NewWriteBatch
    \/ \E k \in KeysOrEmpty, v \in CommitValues : BatchPut(k, v)
    \/ \E k \in KeysOrEmpty : BatchDelete(k)
    \/ \E o \in Orders(pending_batch) : Commit(o)

EmptyKeySpec == Init /\ [][EmptyKeyNext]_vars

\* the keys staged where a batch has to outgrow max_batch_size
BatchKeys == Keys \cup { <<98>> }

OversizeNext ==
    \/ \E k \in Keys, v \in CrashValues : Put(k, v)
    \/ NewWriteBatch
    \/ \E k \in BatchKeys, v \in CommitValues : BatchPut(k, v)
    \/ \E k \in BatchKeys : BatchDelete(k)
    \/ \E o \in Orders(pending_batch) : Commit(o)

OversizeSpec == Init /\ [][OversizeNext]_vars

\* ---------------------------------------------------------------------------
\* Appends that fail: the steps of append_log_record that can return an error
\* ---------------------------------------------------------------------------
AppendStages == { "sync", "create", "write" }

\* the errors FileIO maps the failures of sync, open and write to
AppendErrors ==
    { "FailToReadFromDataFile", "FailToOpenDataFile", "FailToWriteToDataFile" }

\* Engine::append_log_record returning an error at `stage`: the sync before a
\* rotation, the creation of the next segment, or the write of the record.
\* `can` tells whether the stage is passed through at all.
AppendLogRecordFail(s, rec, stage) ==
    LET len == EncodedLength(rec)
        rotate == Rotates(s.active_file.write_offset, len)
        fid == s.active_file.file_id
        synced == SyncFile(s.disk, fid)
        rotated == [disk |-> NewDataFile(synced, fid + 1),
                    active_file |-> DataFile(fid + 1, 0),
                    old_files |-> [f \in DOMAIN s.old_files \cup {fid} |->
                                      IF f = fid THEN s.active_file.write_offset
                                      ELSE s.old_files[f]]]
    IN  CASE stage = "sync" ->
               [can |-> rotate, err |-> "FailToReadFromDataFile", store |-> s]
          [] stage = "create" ->
               [can |-> rotate, err |-> "FailToOpenDataFile",
                store |-> [s EXCEPT !.disk = synced]]
          [] OTHER ->
               [can |-> TRUE, err |-> "FailToWriteToDataFile",
                store |-> IF rotate THEN rotated ELSE s]

\* Engine::put whose append fails
PutFail(key, value, stage) ==
    /\ InSession
    /\ key # <<>>
    /\ LET rec == LogRecord("Normal",
                     LogRecordKeyWithSequence(key, NON_TXN_PREFIX, NON_BATCH_COMMIT_ID),
                     value)
           a == AppendLogRecordFail(Store, rec, stage)
       IN  /\ a.can
           /\ disk' = a.store.disk
           /\ active_file' = a.store.active_file
           /\ old_files' = a.store.old_files
           /\ result' = a.err
    /\ UNCHANGED <<status, indexer, batch_prefix, batch_commit_id, clock,
                   batch_live, pending_batch, last, view, dirty, applied, iter, inflight, raw>>

\* Engine::delete whose append fails
DeleteFail(key, stage) ==
    /\ InSession
    /\ key # <<>>
    /\ IndexerHas(indexer, key)
    /\ LET rec == LogRecord("Deleted",
                     LogRecordKeyWithSequence(key, NON_TXN_PREFIX, NON_BATCH_COMMIT_ID),
                     <<>>)
           a == AppendLogRecordFail(Store, rec, stage)
       IN  /\ a.can
           /\ disk' = a.store.disk
           /\ active_file' = a.store.active_file
           /\ old_files' = a.store.old_files
           /\ result' = a.err
    /\ UNCHANGED <<status, indexer, batch_prefix, batch_commit_id, clock,
                   batch_live, pending_batch, last, view, dirty, applied, iter, inflight, raw>>

\* variant: the keydir is updated for each member as soon as it is appended
CommitFailEagerIndex(order, done, stage) ==
    /\ InSession
    /\ batch_live
    /\ pending_batch # EmptyBatch
    /\ Cardinality(DOMAIN pending_batch) <= MaxBatchSize
    /\ order \in Orders(pending_batch)
    /\ done \in 0..Len(order)
    /\ batch_commit_id < MaxSeqId
    /\ TotalEntries(disk) + done <= MaxRecords
    /\ LET recs == CommitRecords(pending_batch, order, batch_prefix, batch_commit_id)
           a == AppendAll(Store, SubSeq(recs, 1, done))
           f == AppendLogRecordFail(a.store, recs[done + 1], stage)
       IN  /\ f.can
           /\ disk' = f.store.disk
           /\ active_file' = f.store.active_file
           /\ old_files' = f.store.old_files
           /\ indexer' = CommitIndexUpdate(indexer, pending_batch,
                                           SubSeq(order, 1, done), a.poss)
           /\ result' = f.err
    /\ batch_commit_id' = FetchAdd(batch_commit_id)
    /\ UNCHANGED <<status, batch_prefix, clock, batch_live, pending_batch,
                   last, view, dirty, applied, iter, inflight, raw>>

\* WriteBatch::commit whose append of record done + 1 fails (the terminator
\* when done is the number of members): the records before it stay in the log
CommitFail(order, done, stage) ==
    /\ InSession
    /\ batch_live
    /\ pending_batch # EmptyBatch
    /\ Cardinality(DOMAIN pending_batch) <= MaxBatchSize
    /\ order \in Orders(pending_batch)
    /\ done \in 0..Len(order)
    /\ batch_commit_id < MaxSeqId
    /\ TotalEntries(disk) + done <= MaxRecords
    /\ LET recs == CommitRecords(pending_batch, order, batch_prefix, batch_commit_id)
           a == AppendAll(Store, SubSeq(recs, 1, done))
           f == AppendLogRecordFail(a.store, recs[done + 1], stage)
       IN  /\ f.can
           /\ disk' = f.store.disk
           /\ active_file' = f.store.active_file
           /\ old_files' = f.store.old_files
           /\ result' = f.err
    /\ batch_commit_id' = FetchAdd(batch_commit_id)
    /\ UNCHANGED <<status, indexer, batch_prefix, clock, batch_live,
                   pending_batch, last, view, dirty, applied, iter, inflight, raw>>

FailNext ==
    \/ \E k \in Keys, v \in CrashValues : Put(k, v)
    \/ \E k \in Keys : Delete(k)
    \/ NewWriteBatch
    \/ \E k \in Keys, v \in CommitValues : BatchPut(k, v)
    \/ \E o \in Orders(pending_batch) : Commit(o)
    \/ \E k \in Keys, v \in CrashValues, st \in AppendStages : PutFail(k, v, st)
    \/ \E k \in Keys, st \in AppendStages : DeleteFail(k, st)
    \/ \E o \in Orders(pending_batch), n \in 0..MaxBatchSize, st \in AppendStages :
          CommitFail(o, n, st)

FailSpec == Init /\ [][FailNext]_vars

\* ---------------------------------------------------------------------------
\* Several threads calling into one engine: every call is split at the points
\* where it takes and releases a lock
\* ---------------------------------------------------------------------------

(***************************************************************************)
(* One data file as bytes: records are written as Engine::put and          *)
(* Engine::delete encode them, one byte of the file is altered behind the  *)
(* program's back, and read_log_record is called at a record's offset.     *)
(***************************************************************************)
StoredRecords ==
    { LogRecord("Normal", LogRecordKeyWithSequence(k, NON_TXN_PREFIX, NON_BATCH_COMMIT_ID), v) :
        k \in Keys, v \in CrashValues }
    \cup { LogRecord("Deleted", LogRecordKeyWithSequence(k, NON_TXN_PREFIX, NON_BATCH_COMMIT_ID), <<>>) :
        k \in Keys }

\* the offsets past the last covered byte of the i-th record
CoveredEnd(r, i) ==
    (IF i < Len(r.starts) THEN r.starts[i + 1] ELSE Len(r.bytes)) - LOG_CRC_SIZE

\* DataFile::write of one encoded record at the end of the file
FileWrite(rec) ==
    /\ status = "file"
    /\ raw.hit = 0
    /\ Len(raw.starts) < MaxStored
    /\ raw' = [raw EXCEPT !.bytes = @ \o Encode(rec),
                          !.starts = Append(@, Len(raw.bytes)),
                          !.out = NoRead]
    /\ UNCHANGED <<engineVars, batch_live, pending_batch, result, last, view,
                   dirty, applied, iter, inflight>>

\* one byte in the covered range of the i-th record takes another value
FileCorrupt(i, pos, b) ==
    /\ status = "file"
    /\ raw.hit = 0
    /\ i \in 1..Len(raw.starts)
    /\ pos \in (raw.starts[i] + 1)..CoveredEnd(raw, i)
    /\ b # raw.bytes[pos]
    /\ raw' = [raw EXCEPT !.bytes[pos] = b, !.hit = i, !.out = NoRead]
    /\ UNCHANGED <<engineVars, batch_live, pending_batch, result, last, view,
                   dirty, applied, iter, inflight>>

\* read_log_record at the offset of the i-th record; once a byte was altered,
\* the record that holds it is the one that is read
FileRead(i) ==
    /\ status = "file"
    /\ i \in 1..Len(raw.starts)
    /\ raw.hit \in {0, i}
    /\ raw' = [raw EXCEPT !.out =
                 [at |-> i] @@ ReadLogRecordBytes(raw.bytes, raw.starts[i])]
    /\ UNCHANGED <<engineVars, batch_live, pending_batch, result, last, view,
                   dirty, applied, iter, inflight>>

CorruptInit ==
    /\ disk = <<EmptyFile>>
    /\ status = "file"
    /\ active_file = DataFile(INITAIL_FILE_ID, 0)
    /\ old_files = [f \in {} |-> 0]
    /\ indexer = EmptyIndexer
    /\ batch_prefix = GenerateNanoTimestampPrefix(1)
    /\ batch_commit_id = 1
    /\ clock = 1
    /\ batch_live = FALSE
    /\ pending_batch = EmptyBatch
    /\ result = "Ok"
    /\ last = [k \in Keys |-> NoMutation]
    /\ view = NoView
    /\ dirty = {}
    /\ applied = {}
    /\ iter = NoIter
    /\ inflight = NoCalls
    /\ raw = NoRaw

CorruptNext ==
    \/ \E rec \in StoredRecords : FileWrite(rec)
    \/ \E i \in 1..MaxStored, pos \in 1..Len(raw.bytes), b \in CorruptBytes :
          FileCorrupt(i, pos, b)
    \/ \E i \in 1..MaxStored : FileRead(i)

CorruptSpec == CorruptInit /\ [][CorruptNext]_vars

\* sessions that end by close or by a crash inside commit, each followed by
\* an open over the directory they left
RecoverNext ==
    \/ \E k \in Keys, v \in CrashValues : Put(k, v)
    \/ \E k \in Keys : Delete(k)
    \/ Close
    \/ Open
    \/ NewWriteBatch
    \/ \E k \in Keys, v \in CommitValues : BatchPut(k, v)
    \/ \E o \in Orders(pending_batch) : Commit(o)
    \/ \E o \in Orders(pending_batch), done \in 1..(MaxBatchSize + 1) :
          CommitCrash(o, done)

RecoverSpec == Init /\ [][RecoverNext]_vars

\* a segment file is cut short behind the program's back while the
\* directory is closed: it keeps its first `keep` records
TruncateSegment(f, keep) ==
    /\ status = "closed"
    /\ f \in 1..Len(disk)
    /\ keep \in 0..(Len(disk[f].ents) - 1)
    /\ disk' = [disk EXCEPT ![f] = [ents |-> SubSeq(@.ents, 1, keep), synced |-> keep]]
    /\ status' = "crashed"
    /\ UNCHANGED <<active_file, old_files, indexer, batch_prefix, batch_commit_id,
                   clock, batch_live, pending_batch, result, last, view, dirty,
                   applied, iter, inflight, raw>>

\* one session of puts and commits, closed; the directory it leaves, whole
\* or with one segment cut short, is opened
TruncateNext ==
    \/ \E k \in Keys, v \in CrashValues : Put(k, v)
    \/ NewWriteBatch
    \/ \E k \in Keys, v \in CommitValues : BatchPut(k, v)
    \/ \E o \in Orders(pending_batch) : Commit(o)
    \/ Close
    \/ \E f \in 1..MaxRecords, keep \in 0..MaxRecords : TruncateSegment(f, keep)
    \/ Open

TruncateSpec == Init /\ [][TruncateNext]_vars

\* a crash inside commit after `done` member records were appended and
\* reached the disk, the terminator not yet; the power comes back at once
CommitOrphan(order, done) ==
    /\ InSession
    /\ batch_live
    /\ pending_batch # EmptyBatch
    /\ Cardinality(DOMAIN pending_batch) <= MaxBatchSize
    /\ order \in Orders(pending_batch)
    /\ done \in 1..Len(order)
    /\ TotalEntries(disk) + done <= MaxRecords
    /\ LET recs == CommitRecords(pending_batch, order, batch_prefix, batch_commit_id)
           a == AppendAll(Store, SubSeq(recs, 1, done))
           fid == a.store.active_file.file_id
       IN  disk' = CrashDisk(a.store.disk, fid, Len(a.store.disk[fid + 1].ents), 0)
    /\ status' = "crashed"
    /\ iter' = NoIter
    /\ active_file' = DataFile(0, 0)
    /\ old_files' = [f \in {} |-> 0]
    /\ indexer' = EmptyIndexer
    /\ batch_prefix' = <<>>
    /\ batch_commit_id' = 0
    /\ batch_live' = FALSE
    /\ pending_batch' = EmptyBatch
    /\ result' = "Ok"
    /\ applied' = {}
    /\ view' = NoView
    /\ last' = [k \in Keys |->
                  IF k \in dirty \cup DOMAIN pending_batch THEN NoMutation ELSE last[k]]
    /\ dirty' = dirty \cup DOMAIN pending_batch
    /\ UNCHANGED <<clock, inflight, raw>>

\* the first session starts one clock reading early, so that the session
\* after it still makes calls
EarlyInit ==
    /\ disk = <<EmptyFile>>
    /\ status = "open"
    /\ active_file = DataFile(INITAIL_FILE_ID, 0)
    /\ old_files = [f \in {} |-> 0]
    /\ indexer = EmptyIndexer
    /\ batch_prefix = GenerateNanoTimestampPrefix(0)
    /\ batch_commit_id = 1
    /\ clock = 0
    /\ batch_live = FALSE
    /\ pending_batch = EmptyBatch
    /\ result = "Ok"
    /\ last = [k \in Keys |-> NoMutation]
    /\ view = NoView
    /\ dirty = {}
    /\ applied = {}
    /\ iter = NoIter
    /\ inflight = NoCalls
    /\ raw = NoRaw

\* sessions of batch commits; a session ends by close or inside a commit
SessionsNext ==
    \/ \E k \in Keys, v \in CrashValues : Put(k, v)
    \/ NewWriteBatch
    \/ \E k \in Keys, v \in CommitValues : BatchPut(k, v)
    \/ \E o \in Orders(pending_batch) : Commit(o)
    \/ \E o \in Orders(pending_batch), done \in 1..MaxBatchSize : CommitOrphan(o, done)
    \/ Close
    \/ Open

SessionsSpec == EarlyInit /\ [][SessionsNext]_vars

\* what can be wrong with one record of a closed directory: the device fails
\* to read it, its bytes do not match its checksum, or its key is not framed
DamageKinds == { "io", "crc", "key" }

UnframedKey == <<200>>

DamagedRecord(e, kind) ==
    IF kind = "io" THEN [e EXCEPT !.torn = 0 - 1]
    ELSE IF kind = "crc" THEN [e EXCEPT !.torn = EncodedLength(e)]
    ELSE [e EXCEPT !.key = UnframedKey]

\* the i-th record of file f is damaged while the directory is closed
Damage(f, i, kind) ==
    /\ status = "closed"
    /\ f \in 1..Len(disk)
    /\ i \in 1..Len(disk[f].ents)
    /\ disk' = [disk EXCEPT ![f].ents[i] = DamagedRecord(@, kind)]
    /\ status' = "crashed"
    /\ UNCHANGED <<active_file, old_files, indexer, batch_prefix, batch_commit_id,
                   clock, batch_live, pending_batch, result, last, view, dirty,
                   applied, iter, inflight, raw>>

\* one session of puts and commits, closed; the directory it leaves, whole
\* or with one damaged record, is opened
DamageNext ==
    \/ \E k \in Keys, v \in CrashValues : Put(k, v)
    \/ NewWriteBatch
    \/ \E k \in Keys, v \in CommitValues : BatchPut(k, v)
    \/ \E o \in Orders(pending_batch) : Commit(o)
    \/ Close
    \/ \E f \in 1..MaxRecords, i \in 1..MaxRecords, kind \in DamageKinds :
          Damage(f, i, kind)
    \/ Open

DamageSpec == Init /\ [][DamageNext]_vars

\* DataFile::write when FileIO::write stores only the first n bytes of the
\* record and returns Ok(n): the cursor moves by n
WriteFileShort(d, fid, rec, n) ==
    [d EXCEPT ![fid + 1].ents = Append(@, [rec EXCEPT !.torn = n])]

\* Engine::append_log_record around such a write: the count that
\* active_file.write returns is dropped and the position is returned
AppendLogRecordShort(s, rec, n) ==
    LET len == EncodedLength(rec)
        rotate == Rotates(s.active_file.write_offset, len)
        fid == IF rotate THEN s.active_file.file_id + 1 ELSE s.active_file.file_id
        d1 == IF rotate
              THEN NewDataFile(SyncFile(s.disk, s.active_file.file_id), fid)
              ELSE s.disk
        old == IF rotate
               THEN [f \in DOMAIN s.old_files \cup {s.active_file.file_id} |->
                        IF f = s.active_file.file_id
                        THEN s.active_file.write_offset ELSE s.old_files[f]]
               ELSE s.old_files
        offset == IF rotate THEN 0 ELSE s.active_file.write_offset
        d2 == WriteFileShort(d1, fid, rec, n)
        d3 == IF SyncInWrite THEN SyncFile(d2, fid) ELSE d2
    IN  [disk |-> d3,
         active_file |-> DataFile(fid, offset + n),
         old_files |-> old,
         pos |-> LogRecordPos(fid, offset)]

\* Engine::put whose write is short
PutShort(key, value, n) ==
    /\ InSession
    /\ key # <<>>
    /\ n \in 1..MaxTorn
    /\ TotalEntries(disk) + 1 <= MaxRecords
    /\ LET rec == LogRecord("Normal",
                     LogRecordKeyWithSequence(key, NON_TXN_PREFIX, NON_BATCH_COMMIT_ID),
                     value)
           a == AppendLogRecordShort(Store, rec, n)
       IN  /\ n < EncodedLength(rec)
           /\ disk' = a.disk
           /\ active_file' = a.active_file
           /\ old_files' = a.old_files
           /\ indexer' = IndexerPut(indexer, key, a.pos)
    /\ result' = "Ok"
    /\ last' = [last EXCEPT ![key] = [op |-> "put", value |-> value]]
    /\ dirty' = dirty \cup {key}
    /\ UNCHANGED <<status, batch_prefix, batch_commit_id, clock, batch_live,
                   pending_batch, view, applied, iter, inflight, raw>>

\* Engine::delete whose write is short
DeleteShort(key, n) ==
    /\ InSession
    /\ key # <<>>
    /\ n \in 1..MaxTorn
    /\ IndexerHas(indexer, key)
    /\ TotalEntries(disk) + 1 <= MaxRecords
    /\ LET rec == LogRecord("Deleted",
                     LogRecordKeyWithSequence(key, NON_TXN_PREFIX, NON_BATCH_COMMIT_ID),
                     <<>>)
           a == AppendLogRecordShort(Store, rec, n)
       IN  /\ n < EncodedLength(rec)
           /\ disk' = a.disk
           /\ active_file' = a.active_file
           /\ old_files' = a.old_files
           /\ indexer' = IndexerDelete(indexer, key)
    /\ result' = "Ok"
    /\ last' = [last EXCEPT ![key] = [op |-> "delete", value |-> <<>>]]
    /\ dirty' = dirty \cup {key}
    /\ UNCHANGED <<status, batch_prefix, batch_commit_id, clock, batch_live,
                   pending_batch, view, applied, iter, inflight, raw>>

\* one session of puts and deletes on a device whose writes can be short
ShortNext ==
    \/ \E k \in Keys, v \in CrashValues : Put(k, v)
    \/ \E k \in Keys : Delete(k)
    \/ \E k \in Keys, v \in CrashValues, n \in 1..MaxTorn : PutShort(k, v, n)
    \/ \E k \in Keys, n \in 1..MaxTorn : DeleteShort(k, n)

ShortSpec == Init /\ [][ShortNext]_vars

\* power loss between calls after which the power comes back at once: the
\* engine that recovers goes on to make calls
CrashAndRestart ==
    /\ InSession
    /\ \E keep \in 0..Len(disk[active_file.file_id + 1].ents), torn \in 0..MaxTorn :
          /\ CanCrash(disk, active_file.file_id, keep, torn)
          /\ disk' = CrashDisk(disk, active_file.file_id, keep, torn)
    /\ status' = "crashed"
    /\ iter' = NoIter
    /\ active_file' = DataFile(0, 0)
    /\ old_files' = [f \in {} |-> 0]
    /\ indexer' = EmptyIndexer
    /\ batch_prefix' = <<>>
    /\ batch_commit_id' = 0
    /\ batch_live' = FALSE
    /\ pending_batch' = EmptyBatch
    /\ result' = "Ok"
    /\ applied' = {}
    /\ view' = NoView
    /\ last' = [k \in Keys |-> IF k \in dirty THEN NoMutation ELSE last[k]]
    /\ UNCHANGED <<clock, dirty, inflight, raw>>

\* a session of puts that ends in a power loss, the recovering open, and the
\* puts of the session after it
TornNext ==
    \/ \E k \in Keys, v \in CrashValues : Put(k, v)
    \/ Sync
    \/ CrashAndRestart
    \/ Open

TornSpec == EarlyInit /\ [][TornNext]_vars

\* the values whose records fill a segment exactly together with another
RotateValues == { <<1>>, <<1, 1, 1, 1, 1>> }

\* one session of puts and deletes of records of several lengths
RotateNext ==
    \/ \E k \in Keys, v \in RotateValues : Put(k, v)
    \/ \E k \in Keys : Delete(k)

RotateSpec == Init /\ [][RotateNext]_vars

\* the records written to the data file on its own: both types, keys and
\* values that may be empty or hold a zero byte
RoundTripRecords ==
    { LogRecord(t, k, v) : t \in {"Normal", "Deleted"},
                           k \in {<<>>, <<0>>, <<97, 98>>},
                           v \in {<<>>, <<1>>} }

\* DataFile::write of the encoded record: the bytes go to the end of the file
\* and write_offset moves by the count written; the caller notes the offset
\* the record starts at, as test_data_file_read_record does
DataFileWrite(rec) ==
    /\ status = "file"
    /\ raw.hit = 0
    /\ Len(raw.starts) < MaxStored
    /\ raw' = [raw EXCEPT !.bytes = @ \o Encode(rec),
                          !.starts = Append(@, active_file.write_offset),
                          !.out = NoRead]
    /\ disk' = WriteFile(disk, active_file.file_id, rec)
    /\ active_file' = DataFile(active_file.file_id,
                               active_file.write_offset + Len(Encode(rec)))
    /\ UNCHANGED <<status, old_files, indexer, batch_prefix, batch_commit_id,
                   clock, batch_live, pending_batch, result, last, view, dirty,
                   applied, iter, inflight>>

\* writes to one data file and reads at the offsets of the records written
RoundTripNext ==
    \/ \E rec \in RoundTripRecords : DataFileWrite(rec)
    \/ \E i \in 1..MaxStored : FileRead(i)

RoundTripSpec == CorruptInit /\ [][RoundTripNext]_vars

\* the staging maps the threads commit
ConcBatches ==
    { [k \in {<<97>>} |-> LogRecord("Normal", k, <<2>>)],
      [k \in Keys |-> LogRecord("Normal", k, <<2>>)] }

\* the appends a call in flight has still to make
Owed(c) ==
    CASE c.pc = "delete_append" -> 1
      [] c.pc \in {"commit_lock", "commit_append"} -> Len(c.todo) + 1
      [] c.pc = "commit_fin" -> 1
      [] c.pc = "rotate_insert" -> 1
      [] OTHER -> 0

RECURSIVE SumOwed(_)
SumOwed(T) ==
    IF T = {} THEN 0
    ELSE LET t == CHOOSE x \in T : TRUE
         IN  Owed(inflight[t]) + SumOwed(T \ {t})

\* room in the bounded log for n more appends besides those already owed
Room(n) == TotalEntries(disk) + SumOwed(Threads) + n <= MaxRecords

\* batch_commit_lock is held from its acquisition to the return of commit
CommitLockHeld ==
    \E t \in Threads : inflight[t].pc \in {"commit_append", "commit_fin", "commit_index"}

restOfThread == <<status, batch_prefix, clock, batch_live, pending_batch, last,
                  view, dirty, applied, iter, raw>>

\* Engine::put up to the return of append_log_record
ThreadPutAppend(t, key, value) ==
    /\ InSession
    /\ inflight[t].pc = "idle"
    /\ key # <<>>
    /\ Room(1)
    /\ LET rec == LogRecord("Normal",
                     LogRecordKeyWithSequence(key, NON_TXN_PREFIX, NON_BATCH_COMMIT_ID),
                     value)
           a == AppendLogRecord(Store, rec)
       IN  /\ disk' = a.disk
           /\ active_file' = a.active_file
           /\ old_files' = a.old_files
           /\ inflight' = [inflight EXCEPT ![t] =
                              [NoCall EXCEPT !.pc = "put_index", !.key = key,
                                             !.pos = a.pos]]
    /\ UNCHANGED <<indexer, batch_commit_id, result, restOfThread>>

\* Engine::put: indexer.put and the return
ThreadPutIndex(t) ==
    /\ InSession
    /\ inflight[t].pc = "put_index"
    /\ indexer' = IndexerPut(indexer, inflight[t].key, inflight[t].pos)
    /\ inflight' = [inflight EXCEPT ![t] = NoCall]
    /\ result' = "Ok"
    /\ UNCHANGED <<disk, active_file, old_files, batch_commit_id, restOfThread>>

\* Engine::delete: indexer.get; the None arm returns at once
ThreadDeleteGet(t, key) ==
    /\ InSession
    /\ inflight[t].pc = "idle"
    /\ key # <<>>
    /\ Room(1)
    /\ IF IndexerHas(indexer, key)
       THEN /\ inflight' = [inflight EXCEPT ![t] =
                               [NoCall EXCEPT !.pc = "delete_append", !.key = key]]
            /\ UNCHANGED result
       ELSE /\ result' = "Ok"
            /\ UNCHANGED <<inflight, raw>>
    /\ UNCHANGED <<disk, active_file, old_files, indexer, batch_commit_id,
                   restOfThread>>

\* Engine::delete: the append of the tombstone
ThreadDeleteAppend(t) ==
    /\ InSession
    /\ inflight[t].pc = "delete_append"
    /\ LET rec == LogRecord("Deleted",
                     LogRecordKeyWithSequence(inflight[t].key, NON_TXN_PREFIX,
                                              NON_BATCH_COMMIT_ID),
                     <<>>)
           a == AppendLogRecord(Store, rec)
       IN  /\ disk' = a.disk
           /\ active_file' = a.active_file
           /\ old_files' = a.old_files
           /\ inflight' = [inflight EXCEPT ![t].pc = "delete_index", ![t].pos = a.pos]
    /\ UNCHANGED <<indexer, batch_commit_id, result, restOfThread>>

\* Engine::delete: indexer.delete and the return
ThreadDeleteIndex(t) ==
    /\ InSession
    /\ inflight[t].pc = "delete_index"
    /\ indexer' = IndexerDelete(indexer, inflight[t].key)
    /\ result' = IF IndexerHas(indexer, inflight[t].key) THEN "Ok"
                 ELSE "FailToUpdateIndex"
    /\ inflight' = [inflight EXCEPT ![t] = NoCall]
    /\ UNCHANGED <<disk, active_file, old_files, batch_commit_id, restOfThread>>

\* variant: the sequence id is taken when the commit lock is acquired
ThreadCommitSeqUnderLock(t, batch) ==
    /\ InSession
    /\ inflight[t].pc = "idle"
    /\ Cardinality(DOMAIN batch) <= MaxBatchSize
    /\ Room(Cardinality(DOMAIN batch) + 1)
    /\ ~CommitLockHeld
    /\ \E order \in Orders(batch) :
          inflight' = [inflight EXCEPT ![t] =
                          [NoCall EXCEPT !.pc = "commit_append", !.batch = batch,
                                         !.seq_id = batch_commit_id,
                                         !.todo = order]]
    /\ batch_commit_id' = FetchAdd(batch_commit_id)
    /\ UNCHANGED <<disk, active_file, old_files, indexer, result, restOfThread>>

\* WriteBatch::commit of a staged batch: the size check and fetch_add
ThreadCommitSeq(t, batch) ==
    /\ InSession
    /\ inflight[t].pc = "idle"
    /\ Cardinality(DOMAIN batch) <= MaxBatchSize
    /\ Room(Cardinality(DOMAIN batch) + 1)
    /\ \E order \in Orders(batch) :
          inflight' = [inflight EXCEPT ![t] =
                          [NoCall EXCEPT !.pc = "commit_lock", !.batch = batch,
                                         !.seq_id = batch_commit_id,
                                         !.todo = order]]
    /\ batch_commit_id' = FetchAdd(batch_commit_id)
    /\ UNCHANGED <<disk, active_file, old_files, indexer, result, restOfThread>>

\* WriteBatch::commit: batch_commit_lock.lock()
ThreadCommitLock(t) ==
    /\ InSession
    /\ inflight[t].pc = "commit_lock"
    /\ ~CommitLockHeld
    /\ inflight' = [inflight EXCEPT ![t].pc = "commit_append"]
    /\ UNCHANGED <<disk, active_file, old_files, indexer, batch_commit_id, result,
                   restOfThread>>

\* variant: every member is put into the keydir as soon as it is appended
ThreadCommitAppendIndexing(t) ==
    /\ InSession
    /\ inflight[t].pc = "commit_append"
    /\ LET c == inflight[t]
           m == c.batch[Head(c.todo)]
           rec == LogRecord(m.record_type,
                            LogRecordKeyWithSequence(m.key, batch_prefix, c.seq_id),
                            m.value)
           a == AppendLogRecord(Store, rec)
       IN  /\ disk' = a.disk
           /\ active_file' = a.active_file
           /\ old_files' = a.old_files
           /\ indexer' = IndexerPut(indexer, m.key, a.pos)
           /\ inflight' = [inflight EXCEPT
                              ![t].todo = Tail(c.todo),
                              ![t].poss = Append(c.poss, [key |-> m.key, pos |-> a.pos]),
                              ![t].pc = IF Tail(c.todo) = <<>> THEN "commit_fin"
                                        ELSE "commit_append"]
    /\ UNCHANGED <<batch_commit_id, result, restOfThread>>

\* WriteBatch::commit: one round of the try_fold over batch.values()
ThreadCommitAppend(t) ==
    /\ InSession
    /\ inflight[t].pc = "commit_append"
    /\ LET c == inflight[t]
           m == c.batch[Head(c.todo)]
           rec == LogRecord(m.record_type,
                            LogRecordKeyWithSequence(m.key, batch_prefix, c.seq_id),
                            m.value)
           a == AppendLogRecord(Store, rec)
       IN  /\ disk' = a.disk
           /\ active_file' = a.active_file
           /\ old_files' = a.old_files
           /\ inflight' = [inflight EXCEPT
                              ![t].todo = Tail(c.todo),
                              ![t].poss = Append(c.poss, [key |-> m.key, pos |-> a.pos]),
                              ![t].pc = IF Tail(c.todo) = <<>> THEN "commit_fin"
                                        ELSE "commit_append"]
    /\ UNCHANGED <<indexer, batch_commit_id, result, restOfThread>>

\* WriteBatch::commit: the append of the terminator
ThreadCommitFin(t) ==
    /\ InSession
    /\ inflight[t].pc = "commit_fin"
    /\ LET rec == LogRecord("BatchCommit",
                            LogRecordKeyWithSequence(TXN_FIN_PREFIX, batch_prefix,
                                                     inflight[t].seq_id),
                            <<>>)
           a == AppendLogRecord(Store, rec)
       IN  /\ disk' = a.disk
           /\ active_file' = a.active_file
           /\ old_files' = a.old_files
           /\ inflight' = [inflight EXCEPT ![t].pc = "commit_index"]
    /\ UNCHANGED <<indexer, batch_commit_id, result, restOfThread>>

\* WriteBatch::commit: one indexer.put of the "update index" pass, in the order
\* the map of positions happens to iterate; after the last one the batch is
\* cleared, the lock released and Ok returned
ThreadCommitIndex(t, i) ==
    /\ InSession
    /\ inflight[t].pc = "commit_index"
    /\ i \in DOMAIN inflight[t].poss
    /\ LET c == inflight[t]
           rest == [j \in 1..(Len(c.poss) - 1) |->
                       IF j < i THEN c.poss[j] ELSE c.poss[j + 1]]
       IN  /\ indexer' = IndexerPut(indexer, c.poss[i].key, c.poss[i].pos)
           /\ IF rest = <<>>
              THEN /\ inflight' = [inflight EXCEPT ![t] = NoCall]
                   /\ result' = "Ok"
              ELSE /\ inflight' = [inflight EXCEPT ![t].poss = rest]
                   /\ UNCHANGED result
    /\ UNCHANGED <<disk, active_file, old_files, batch_commit_id, restOfThread>>

ConcNext ==
    \E t \in Threads :
        \/ \E k \in Keys, v \in CrashValues : ThreadPutAppend(t, k, v)
        \/ ThreadPutIndex(t)
        \/ \E k \in Keys : ThreadDeleteGet(t, k)
        \/ ThreadDeleteAppend(t)
        \/ ThreadDeleteIndex(t)
        \/ \E b \in ConcBatches : ThreadCommitSeq(t, b)
        \/ ThreadCommitLock(t)
        \/ ThreadCommitAppend(t)
        \/ ThreadCommitFin(t)
        \/ \E i \in 1..MaxBatchSize : ThreadCommitIndex(t, i)

ConcSpec == Init /\ [][ConcNext]_vars

\* WriteBatch::commit: an append_log_record of the try_fold or of the
\* terminator returns the error of a failed write; `?` returns it, the commit
\* lock is released and the sequence id stays consumed
ThreadCommitAppendFail(t) ==
    /\ InSession
    /\ inflight[t].pc \in {"commit_append", "commit_fin"}
    /\ inflight[t].seq_id < MaxSeqId
    /\ LET c == inflight[t]
           rec == IF c.pc = "commit_fin"
                  THEN LogRecord("BatchCommit",
                           LogRecordKeyWithSequence(TXN_FIN_PREFIX, batch_prefix, c.seq_id),
                           <<>>)
                  ELSE LogRecord(c.batch[Head(c.todo)].record_type,
                           LogRecordKeyWithSequence(c.batch[Head(c.todo)].key,
                                                    batch_prefix, c.seq_id),
                           c.batch[Head(c.todo)].value)
           f == AppendLogRecordFail(Store, rec, "write")
       IN  /\ disk' = f.store.disk
           /\ active_file' = f.store.active_file
           /\ old_files' = f.store.old_files
           /\ result' = f.err
    /\ inflight' = [inflight EXCEPT ![t] = NoCall]
    /\ UNCHANGED <<indexer, batch_commit_id, restOfThread>>

\* the calls of ConcSpec, and commits that fail at an append
SeqNext ==
    \/ ConcNext
    \/ \E t \in Threads : ThreadCommitAppendFail(t)

SeqSpec == Init /\ [][SeqNext]_vars

(***************************************************************************)
(* The locks of the engine on their own.  A call is the sequence of its    *)
(* lock acquisitions and releases; what a call does to the data decides    *)
(* only which branch it takes, and every branch is taken here.  A thread   *)
(* is [pc, todo, held]: the call it is in, the steps it has still to       *)
(* make, and the locks it holds with their mode.                           *)
(***************************************************************************)
LockThreads == { "t1", "t2" }

LockIdle == [pc |-> "idle", todo |-> <<>>, held |-> {}]

\* a lock of the engine, and a lock of the batch or iterator of one thread
Shared(name) == <<name, "engine">>
Owned(name, t) == <<name, t>>

Acq(lock, mode) == [op |-> "acq", lock |-> lock, mode |-> mode]
Rel(lock) == [op |-> "rel", lock |-> lock, mode |-> "none"]
Do(what) == [op |-> "do", lock |-> <<what, "call">>, mode |-> "none"]

\* Engine::append_log_record: active_file.write(); on a rotation
\* old_files.write(), dropped at the end of the `if` block; the guard of
\* active_file is dropped at the return
AppendLocks(rotate) ==
    <<Acq(Shared("active_file"), "write")>>
        \o (IF rotate THEN <<Acq(Shared("old_files"), "write"), Rel(Shared("old_files"))>> ELSE <<>>)
        \o <<Rel(Shared("active_file"))>>

\* variant: get_by_position takes old_files before active_file
GetByPositionLocksOldFilesFirst(in_active) ==
    <<Acq(Shared("old_files"), "read"), Acq(Shared("active_file"), "read")>>
        \o (IF in_active THEN <<Rel(Shared("old_files")), Rel(Shared("active_file"))>>
            ELSE <<Rel(Shared("active_file")), Rel(Shared("old_files"))>>)

\* Engine::get_by_position: active_file.read(), old_files.read(), then one of
\* the two guards is dropped and the record is read under the other
GetByPositionLocks(in_active) ==
    <<Acq(Shared("active_file"), "read"), Acq(Shared("old_files"), "read")>>
        \o (IF in_active THEN <<Rel(Shared("old_files")), Rel(Shared("active_file"))>>
            ELSE <<Rel(Shared("active_file")), Rel(Shared("old_files"))>>)

\* BTreeIndexer::get / put / delete: the guard of tree lives for the call
IndexerLocks(mode) == <<Acq(Shared("tree"), mode), Rel(Shared("tree"))>>

\* the steps of each call; Do("x") is replaced by the locks of x when it is
\* reached, on both of its branches
CallLocks(t) ==
    [put |-> <<Do("append")>> \o IndexerLocks("write"),
     get |-> IndexerLocks("read") \o <<Do("get_by_position")>>,
     delete |-> IndexerLocks("read") \o <<Do("append")>> \o IndexerLocks("write"),
     delete_absent |-> IndexerLocks("read"),
     next |-> <<Acq(Shared("index_iterator"), "write"), Rel(Shared("index_iterator")),
                Do("get_by_position")>>,
     sync |-> <<Acq(Shared("active_file"), "read"), Rel(Shared("active_file"))>>,
     batch_delete |-> IndexerLocks("read") \o <<Do("get_by_position")>>
                        \o <<Acq(Owned("pending_batch", t), "write"),
                             Rel(Owned("pending_batch", t))>>,
     commit_empty |-> <<Acq(Owned("pending_batch", t), "write"),
                        Rel(Owned("pending_batch", t))>>,
     commit |-> <<Acq(Owned("pending_batch", t), "write"),
                  Acq(Shared("batch_commit_lock"), "write"),
                  Do("append"), Do("append")>>
                  \o IndexerLocks("write")
                  \o <<Rel(Shared("batch_commit_lock")), Rel(Owned("pending_batch", t))>>,
     commit_two |-> <<Acq(Owned("pending_batch", t), "write"),
                      Acq(Shared("batch_commit_lock"), "write"),
                      Do("append"), Do("append"), Do("append")>>
                      \o IndexerLocks("write") \o IndexerLocks("write")
                      \o <<Rel(Shared("batch_commit_lock")), Rel(Owned("pending_batch", t))>>]

\* the guards of a lock that are alive, the caller's own included: the locks
\* of parking_lot are not reentrant
HoldersOf(lock, t) ==
    { h \in UNION { inflight[u].held : u \in LockThreads } : h.lock = lock }

\* a thread waits for the write lock

WaitsToWrite(u, lock) ==
    /\ inflight[u].todo # <<>>
    /\ Head(inflight[u].todo) = Acq(lock, "write")
    /\ HoldersOf(lock, u) # {}

\* parking_lot: a Mutex and a write lock need the lock free; a read lock
\* needs it free of a writer and is not granted past a writer that waits
Available(t, lock, mode) ==
    IF mode = "write" THEN HoldersOf(lock, t) = {}
    ELSE /\ \A h \in HoldersOf(lock, t) : h.mode = "read"
         /\ \A u \in LockThreads \ {t} : ~WaitsToWrite(u, lock)

lockRest == <<disk, status, active_file, old_files, indexer, batch_prefix,
              batch_commit_id, clock, batch_live, pending_batch, result, last,
              view, dirty, applied, iter, raw>>

\* a thread enters one of the calls
LockCall(t, call) ==
    /\ inflight[t].pc = "idle"
    /\ call \in DOMAIN CallLocks(t)
    /\ inflight' = [inflight EXCEPT ![t] =
                       [pc |-> call, todo |-> CallLocks(t)[call], held |-> {}]]
    /\ UNCHANGED lockRest

\* the call reaches append_log_record or get_by_position and takes one of
\* its branches
LockBranch(t, flag) ==
    /\ inflight[t].todo # <<>>
    /\ Head(inflight[t].todo).op = "do"
    /\ inflight' = [inflight EXCEPT ![t].todo =
                       (IF Head(@).lock[1] = "append" THEN AppendLocks(flag)
                        ELSE GetByPositionLocks(flag)) \o Tail(@)]
    /\ UNCHANGED lockRest

\* lock(), read() or write() returns
LockAcquire(t) ==
    /\ inflight[t].todo # <<>>
    /\ Head(inflight[t].todo).op = "acq"
    /\ Available(t, Head(inflight[t].todo).lock, Head(inflight[t].todo).mode)
    /\ inflight' = [inflight EXCEPT
                       ![t].held = @ \cup {[lock |-> Head(inflight[t].todo).lock,
                                            mode |-> Head(inflight[t].todo).mode]},
                       ![t].todo = Tail(@)]
    /\ UNCHANGED lockRest

\* a guard is dropped
LockRelease(t) ==
    /\ inflight[t].todo # <<>>
    /\ Head(inflight[t].todo).op = "rel"
    /\ inflight' = [inflight EXCEPT
                       ![t].held = {h \in @ : h.lock # Head(inflight[t].todo).lock},
                       ![t].todo = Tail(@)]
    /\ UNCHANGED lockRest

\* the call returns
LockReturn(t) ==
    /\ inflight[t].pc # "idle"
    /\ inflight[t].todo = <<>>
    /\ inflight' = [inflight EXCEPT ![t] = LockIdle]
    /\ UNCHANGED lockRest

\* a thread inside a call goes on
LockAdvance(t) ==
    \/ \E flag \in BOOLEAN : LockBranch(t, flag)
    \/ LockAcquire(t)
    \/ LockRelease(t)
    \/ LockReturn(t)

LockInit ==
    /\ disk = <<EmptyFile>>
    /\ status = "open"
    /\ active_file = DataFile(INITAIL_FILE_ID, 0)
    /\ old_files = [f \in {} |-> 0]
    /\ indexer = EmptyIndexer
    /\ batch_prefix = GenerateNanoTimestampPrefix(1)
    /\ batch_commit_id = 1
    /\ clock = 1
    /\ batch_live = FALSE
    /\ pending_batch = EmptyBatch
    /\ result = "Ok"
    /\ last = [k \in Keys |-> NoMutation]
    /\ view = NoView
    /\ dirty = {}
    /\ applied = {}
    /\ iter = NoIter
    /\ inflight = [t \in LockThreads |-> LockIdle]
    /\ raw = NoRaw

LockNext ==
    \E t \in LockThreads :
        \/ \E call \in DOMAIN CallLocks(t) : LockCall(t, call)
        \/ LockAdvance(t)

\* the scheduler runs every thread that can run, and parking_lot hands a
\* lock that is released again and again to every thread that waits for it
LockSpec ==
    /\ LockInit
    /\ [][LockNext]_vars
    /\ \A t \in LockThreads : SF_vars(LockAdvance(t))

(***************************************************************************)
(* Reads against a rotation.  The rotation of append_log_record is taken   *)
(* in two steps, the swap of the active file and the insertion of the old  *)
(* handle into old_files, with the write lock of active_file held from the *)
(* first to the second; get is taken in two steps, the lookup in the       *)
(* keydir and get_by_position.                                             *)
(***************************************************************************)
\* the threads that hold the write lock of active_file
ActiveFileWriters == { u \in Threads : inflight[u].pc = "rotate_insert" }

\* variant: the read of the active file does not wait for the writer
ActiveFileReadUnlocked(writers) == TRUE

\* `self.active_file.read()` returns when no thread holds the write lock
ActiveFileRead(writers) == writers = {}

\* Engine::put when the record fits: the append up to its return
RacePutAppend(t, key, value) ==
    /\ ActiveFileWriters = {}
    /\ ~Rotates(active_file.write_offset,
                EncodedLength(LogRecord("Normal",
                    LogRecordKeyWithSequence(key, NON_TXN_PREFIX, NON_BATCH_COMMIT_ID),
                    value)))
    /\ ThreadPutAppend(t, key, value)

\* Engine::put when the record does not fit: active_file.write(), sync,
\* old_files.write(), DataFile::new and the swap
RacePutSwap(t, key, value) ==
    /\ InSession
    /\ inflight[t].pc = "idle"
    /\ key # <<>>
    /\ Room(1)
    /\ ActiveFileWriters = {}
    /\ LET rec == LogRecord("Normal",
                     LogRecordKeyWithSequence(key, NON_TXN_PREFIX, NON_BATCH_COMMIT_ID),
                     value)
       IN  /\ Rotates(active_file.write_offset, EncodedLength(rec))
           /\ disk' = NewDataFile(SyncFile(disk, active_file.file_id),
                                  active_file.file_id + 1)
           /\ active_file' = DataFile(active_file.file_id + 1, 0)
           /\ inflight' = [inflight EXCEPT ![t] =
                              [NoCall EXCEPT !.pc = "rotate_insert", !.key = key,
                                  !.pos = LogRecordPos(active_file.file_id,
                                                       active_file.write_offset),
                                  !.todo = <<rec>>]]
    /\ UNCHANGED <<old_files, indexer, batch_commit_id, result, restOfThread>>

\* the rest of the append: old_files.insert, the write and the return
RacePutInsert(t) ==
    /\ InSession
    /\ inflight[t].pc = "rotate_insert"
    /\ LET rec == Head(inflight[t].todo)
           old == inflight[t].pos
       IN  /\ old_files' = [f \in DOMAIN old_files \cup {old.file_id} |->
                               IF f = old.file_id THEN old.offset ELSE old_files[f]]
           /\ disk' = IF SyncInWrite
                      THEN SyncFile(WriteFile(disk, active_file.file_id, rec),
                                    active_file.file_id)
                      ELSE WriteFile(disk, active_file.file_id, rec)
           /\ active_file' = DataFile(active_file.file_id,
                                      active_file.write_offset + EncodedLength(rec))
           /\ inflight' = [inflight EXCEPT ![t] =
                              [NoCall EXCEPT !.pc = "put_index",
                                  !.key = inflight[t].key,
                                  !.pos = LogRecordPos(active_file.file_id,
                                                       active_file.write_offset)]]
    /\ UNCHANGED <<indexer, batch_commit_id, result, restOfThread>>

\* Engine::get: indexer.get; the None arm returns KeyNotFound
RaceGetIndex(t, key) ==
    /\ InSession
    /\ inflight[t].pc = "idle"
    /\ key # <<>>
    /\ IF IndexerHas(indexer, key)
       THEN /\ inflight' = [inflight EXCEPT ![t] =
                               [NoCall EXCEPT !.pc = "get_by_position", !.key = key,
                                              !.pos = indexer[key]]]
            /\ UNCHANGED result
       ELSE /\ result' = "KeyNotFound"
            /\ UNCHANGED inflight
    /\ UNCHANGED <<disk, active_file, old_files, indexer, batch_commit_id,
                   restOfThread>>

\* Engine::get: get_by_position under the read locks, and the return
RaceGetByPosition(t) ==
    /\ InSession
    /\ inflight[t].pc = "get_by_position"
    /\ ActiveFileRead(ActiveFileWriters)
    /\ result' = IF GetByPosition(Store, inflight[t].pos).err = "ok" THEN "Ok"
                 ELSE GetByPosition(Store, inflight[t].pos).err
    /\ inflight' = [inflight EXCEPT ![t] = NoCall]
    /\ UNCHANGED <<disk, active_file, old_files, indexer, batch_commit_id,
                   restOfThread>>

RaceNext ==
    \/ \E t \in Threads, k \in Keys, v \in RotateValues : RacePutAppend(t, k, v)
    \/ \E t \in Threads, k \in Keys, v \in RotateValues : RacePutSwap(t, k, v)
    \/ \E t \in Threads : RacePutInsert(t)
    \/ \E t \in Threads : ThreadPutIndex(t)
    \/ \E t \in Threads, k \in Keys : RaceGetIndex(t, k)
    \/ \E t \in Threads : RaceGetByPosition(t)

RaceSpec == Init /\ [][RaceNext]_vars

(***************************************************************************)
(* Properties.                                                             *)
(***************************************************************************)
\* what get returns for a key whose last mutation is l
Expected(l) ==
    IF l.op \in {"put", "commit_put", "recovered"} THEN Ok(l.value)
    ELSE Err("KeyNotFound")

\* Engine::get on the engine of the next state
GetNext(key) ==
    EngineGet([disk |-> disk', active_file |-> active_file',
               old_files |-> old_files'], indexer', key)

\* every whole record of the log with its position
LogEntries(d) ==
    UNION {{[pos |-> LogRecordPos(f - 1, EntryStart(d[f].ents, i)),
             rec |-> d[f].ents[i],
             key |-> LogRecordKeyParse(d[f].ents[i].key)] :
               i \in {j \in 1..Len(d[f].ents) : d[f].ents[j].torn = 0}} :
           f \in DOMAIN d}

\* the (prefix, seq_id) pairs of the batch records in the log
BatchIds(d) ==
    {<<e.key.prefix, e.key.seq_id>> :
        e \in {x \in LogEntries(d) : x.key.seq_id # NON_BATCH_COMMIT_ID}}

\* the positions of the member records of one batch
BatchMembers(d, id) ==
    {e.pos : e \in {x \in LogEntries(d) :
                      /\ x.rec.record_type \in {"Normal", "Deleted"}
                      /\ <<x.key.prefix, x.key.seq_id>> = id}}

HasTerminator(d, id) ==
    \E e \in LogEntries(d) :
        e.rec.record_type = "BatchCommit" /\ <<e.key.prefix, e.key.seq_id>> = id

\* C1: while the engine is open (in the session of the put or after a
\* successful reopen), a key whose last successful mutation is put(k, v)
\* reads back as Ok(v).
PointReadAfterPut ==
    \A k \in Keys :
        (status = "open" /\ last[k].op = "put") => Get(k) = Ok(last[k].value)

\* after close and reopen, the last put of a key is read back from a rotated
\* segment
PointReadAfterPutWitness ==
    \E k \in Keys :
        /\ status = "open"
        /\ clock > 1
        /\ last[k].op = "put"
        /\ k \in DOMAIN indexer
        /\ indexer[k].file_id < active_file.file_id
        /\ Get(k) = Ok(last[k].value)

\* C2: a key whose last successful mutation is delete(k) reads as
\* KeyNotFound in the same session, and after close the engine reopens and
\* still reads it as KeyNotFound.
PointReadAfterDelete ==
    \A k \in Keys :
        last[k].op = "delete" =>
            /\ status # "failed"
            /\ status = "open" => Get(k) = Err("KeyNotFound")

\* with the engine open (in the session or after a reopen that succeeded), a
\* key whose last mutation is delete(k) reads as KeyNotFound
PointReadAfterDeleteWhileOpen ==
    \A k \in Keys :
        (status = "open" /\ last[k].op = "delete") => Get(k) = Err("KeyNotFound")

\* C3: an open that follows a clean close succeeds and get returns for every
\* key what it returned just before the close.
RestartEquivalence ==
    [][(status = "closed" /\ status' # "closed") =>
          /\ status' = "open"
          /\ \A k \in Keys : GetNext(k) = view[k]]_vars

\* an open that follows a clean close and succeeds gives every get result of
\* before the close
RestartEquivalenceWhenOpened ==
    [][(status = "closed" /\ status' = "open") =>
          \A k \in Keys : GetNext(k) = view[k]]_vars

\* C4: after an open has replayed the log (to its end, or up to the record
\* at which it failed), each batch of an earlier session has all of its
\* member records applied or none of them, and the members of a batch without
\* terminator are not applied and no keydir entry points at them.
BatchAtomicity ==
    status \in {"open", "failed"} =>
        \A id \in BatchIds(disk) :
            id[1] # batch_prefix =>
                LET m == BatchMembers(disk, id)
                IN  /\ m \subseteq applied \/ m \cap applied = {}
                    /\ ~HasTerminator(disk, id) =>
                          /\ m \cap applied = {}
                          /\ \A k \in DOMAIN indexer : indexer[k] \notin m

\* a recovered engine whose log holds two members of a batch that crashed
\* before its terminator, and a committed batch that was applied
BatchAtomicityWitness ==
    /\ status = "open"
    /\ \E id \in BatchIds(disk) :
          /\ id[1] # batch_prefix
          /\ ~HasTerminator(disk, id)
          /\ Cardinality(BatchMembers(disk, id)) = 2
          /\ BatchMembers(disk, id) \cap applied = {}
    /\ \E id \in BatchIds(disk) :
          /\ id[1] # batch_prefix
          /\ HasTerminator(disk, id)
          /\ BatchMembers(disk, id) # {}
          /\ BatchMembers(disk, id) \subseteq applied

\* C5: the open that follows a crash succeeds, and every key not mutated
\* since the last sync reads as its last mutation left it.
DurabilityAfterSync ==
    [][(status = "crashed" /\ status' # "crashed") =>
          /\ status' = "open"
          /\ \A k \in Keys \ dirty : GetNext(k) = Expected(last[k])]_vars

\* an open that follows a crash and succeeds gives, for every key not mutated
\* since the last sync, what its last mutation left
DurabilityAfterSyncWhenOpened ==
    [][(status = "crashed" /\ status' = "open") =>
          \A k \in Keys \ dirty : GetNext(k) = Expected(last[k])]_vars

\* C6: a key whose last mutation is a successful commit reads as the batch
\* left it (staged value, or KeyNotFound for a tombstone), in the session and
\* after close and reopen, which succeeds.
CommitVisibility ==
    \A k \in Keys :
        last[k].op \in {"commit_put", "commit_delete"} =>
            /\ status # "failed"
            /\ status = "open" => Get(k) = Expected(last[k])

\* with the engine open, a key whose last mutation is a commit reads as the
\* batch left it
CommitVisibilityWhileOpen ==
    \A k \in Keys :
        (status = "open" /\ last[k].op \in {"commit_put", "commit_delete"}) =>
            Get(k) = Expected(last[k])

\* C7: a step that changes the staging map without committing (WriteBatch
\* put, delete, or dropping the batch) leaves the log, the keydir and the
\* result of every engine get unchanged, hence also what a reopen rebuilds.
BatchIsolation ==
    [][(pending_batch' # pending_batch /\ batch_commit_id' = batch_commit_id
            /\ status' = status) =>
          /\ disk' = disk
          /\ indexer' = indexer
          /\ active_file' = active_file
          /\ old_files' = old_files
          /\ \A k \in Keys : GetNext(k) = Get(k)]_vars

\* a batch holds a staged put and a staged tombstone that the engine does not
\* show: the put's key reads differently and the tombstone's key is live
BatchIsolationWitness ==
    /\ status = "open"
    /\ batch_live
    /\ \E k \in DOMAIN pending_batch :
          /\ pending_batch[k].record_type = "Normal"
          /\ Get(k) # Ok(pending_batch[k].value)
    /\ \E k \in DOMAIN pending_batch :
          /\ pending_batch[k].record_type = "Deleted"
          /\ Get(k).err = "ok"

\* C8: WriteBatch::get returns Ok(v) for a key staged as put(k, v),
\* KeyNotFound for a key staged as tombstone, and what Engine::get returns
\* for a key that is not staged.
ReadYourWrites ==
    batch_live =>
        \A k \in Keys :
            BatchGet(k) =
                IF k \in DOMAIN pending_batch
                THEN IF pending_batch[k].record_type = "Normal"
                     THEN Ok(pending_batch[k].value)
                     ELSE Err("KeyNotFound")
                ELSE Get(k)

\* a staged put whose key the engine holds with another value, next to a key
\* that is not staged and that the engine holds
ReadYourWritesWitness ==
    /\ status = "open"
    /\ batch_live
    /\ \E k \in DOMAIN pending_batch :
          /\ pending_batch[k].record_type = "Normal"
          /\ Get(k).err = "ok"
          /\ Get(k) # Ok(pending_batch[k].value)
          /\ BatchGet(k) = Ok(pending_batch[k].value)
    /\ \E k \in Keys \ DOMAIN pending_batch : Get(k).err = "ok"

\* C9: after a successful WriteBatch::delete(k) no put is staged for k, and a
\* tombstone is staged for k exactly when Engine::get found k live at the
\* call.
BatchDeleteStagingRule ==
    [][\A k \in Keys :
          (BatchDelete(k) /\ result' = "Ok") =>
              /\ k \in DOMAIN pending_batch' =>
                    pending_batch'[k].record_type = "Deleted"
              /\ k \in DOMAIN pending_batch' <=> Get(k).err = "ok"]_vars

\* the keys of a sequence of iterator items
ItemKeys(items) == [i \in DOMAIN items |-> items[i].key]

Ascending(keys) ==
    \A i \in 1..(Len(keys) - 1) : BytesLess(keys[i], keys[i + 1])

Descending(keys) ==
    \A i \in 1..(Len(keys) - 1) : BytesLess(keys[i + 1], keys[i])

Enumerates(keys, set) ==
    /\ {keys[i] : i \in DOMAIN keys} = set
    /\ Len(keys) = Cardinality(set)

\* C10: list_keys and a forward iterator yield the keys of the keydir in
\* strictly ascending byte order, a reverse iterator in strictly descending
\* byte order, each key once.
OrderedIteration ==
    status = "open" =>
        LET fwd == ItemKeys(IndexerIterator(indexer,
                                IndexIteratorOptions(<<>>, FALSE)))
            rev == ItemKeys(IndexerIterator(indexer,
                                IndexIteratorOptions(<<>>, TRUE)))
            lst == IndexerListKeys(indexer)
        IN  /\ Ascending(fwd) /\ Enumerates(fwd, DOMAIN indexer)
            /\ Ascending(lst) /\ Enumerates(lst, DOMAIN indexer)
            /\ Descending(rev) /\ Enumerates(rev, DOMAIN indexer)

\* every key is in the keydir, the one inserted last sorting first
OrderedIterationWitness ==
    /\ status = "open"
    /\ DOMAIN indexer = Keys
    /\ \E k, j \in Keys :
          /\ BytesLess(k, j)
          /\ indexer[j].file_id < indexer[k].file_id
    /\ ItemKeys(IndexerIterator(indexer, IndexIteratorOptions(<<>>, TRUE)))[1]
          # IndexerListKeys(indexer)[1]

\* C11: with the engine open, a key is in list_keys() exactly when
\* Engine::get returns a value for it.
ListKeysAreLiveKeys ==
    status = "open" =>
        \A k \in Keys :
            (\E i \in DOMAIN IndexerListKeys(indexer) :
                 IndexerListKeys(indexer)[i] = k)
            <=> Get(k).err = "ok"

\* the keys of S as next() is to yield them: ascending, or descending for a
\* reverse iterator
RECURSIVE KeysInOrder(_, _)
KeysInOrder(S, reverse) ==
    IF S = {} THEN <<>>
    ELSE LET first == CHOOSE k \in S :
                        \A j \in S \ {k} :
                            IF reverse THEN BytesLess(j, k) ELSE BytesLess(k, j)
         IN  <<first>> \o KeysInOrder(S \ {first}, reverse)

\* the keys the successive next() calls yield from the iterator's position on
RECURSIVE Drain(_)
Drain(it) ==
    LET n == IndexIteratorNext(it)
    IN  IF n.some THEN <<n.item.key>> \o Drain(n.it) ELSE <<>>

\* the keys seek(k) selects: those with the prefix that are >= k, or <= k for a
\* reverse iterator
SeekSelects(tree, options, k) ==
    { x \in DOMAIN tree :
        /\ StartsWith(x, options.prefix)
        /\ IF options.reverse THEN x = k \/ BytesLess(x, k)
           ELSE x = k \/ BytesLess(k, x) }

\* C12: after seek(k), the keys yielded so far followed by the keys the
\* remaining next() calls yield are exactly the keys with the prefix that are
\* >= k in ascending order (forward) or <= k in descending order (reverse).
SeekContract ==
    (iter.live /\ iter.sought.some) =>
        iter.yielded \o Drain(BtreeIndexIterator(iter.items, iter.pos, iter.options))
            = KeysInOrder(SeekSelects(indexer, iter.options, iter.sought.key),
                          iter.options.reverse)

\* a reverse iterator with a prefix, sought at a key the keydir does not hold,
\* has skipped an item and yielded the rest down to the end
SeekContractWitness ==
    /\ iter.live
    /\ iter.sought.some
    /\ iter.options.reverse
    /\ iter.options.prefix # <<>>
    /\ iter.sought.key \notin DOMAIN indexer
    /\ iter.yielded # <<>>
    /\ Len(iter.yielded) < Len(iter.items)
    /\ iter.pos = Len(iter.items)
    /\ \E k \in DOMAIN indexer : ~StartsWith(k, iter.options.prefix)

\* C13: every next() of an engine iterator returns the outcome that was fixed
\* for its position when the iterator was created, whatever puts, deletes and
\* batch commits (rotations included) completed since.
IteratorSnapshot ==
    [][IterNext =>
          iter'.out = IF iter.pos < Len(iter.yields)
                      THEN iter.yields[iter.pos + 1]
                      ELSE IterNone]_vars

\* next() has yielded a pair whose key has since been rewritten or deleted,
\* after a rotation and with the keydir no longer holding the iterator's keys
IteratorSnapshotWitness ==
    /\ iter.live
    /\ iter.out.some
    /\ Get(iter.out.key) # Ok(iter.out.value)
    /\ DOMAIN old_files # {}
    /\ ItemKeys(iter.items) # ItemKeys(IndexerIterator(indexer, iter.options))

\* every keydir location names a segment the engine holds (the active one or
\* an entry of old_files) and the record stored there carries the key
LocationsResolve ==
    status = "open" =>
        \A k \in DOMAIN indexer :
            LET pos == indexer[k]
                r == ReadLogRecord(disk[pos.file_id + 1].ents, pos.offset)
            IN  /\ pos.file_id = active_file.file_id \/ pos.file_id \in DOMAIN old_files
                /\ pos.file_id + 1 \in DOMAIN disk
                /\ r.err = "ok"
                /\ LogRecordKeyParse(r.record.key).key = k

\* C14: with the engine open, get(k) for every key the keydir holds resolves
\* the location to a segment the engine holds and returns the value of the
\* record stored there, never DataFileNotFound, whatever rotations happened.
RotationAddressability ==
    status = "open" =>
        \A k \in DOMAIN indexer :
            LET pos == indexer[k]
                r == ReadLogRecord(disk[pos.file_id + 1].ents, pos.offset)
            IN  /\ pos.file_id = active_file.file_id \/ pos.file_id \in DOMAIN old_files
                /\ Get(k) # Err("DataFileNotFound")
                /\ r.err = "ok"
                /\ Get(k) = Ok(r.record.value)

\* C15: the write cursor and the physical size of every segment, active or
\* immutable, are at most datafile_size, whatever the appended records' length.
SegmentSizeBound ==
    /\ active_file.write_offset <= DatafileSize
    /\ \A f \in DOMAIN old_files : old_files[f] <= DatafileSize
    /\ \A i \in DOMAIN disk : PhysicalSize(disk[i].ents) <= DatafileSize

\* the bound for records that fit a segment: a segment is longer than
\* datafile_size only when it holds a single record that is
SegmentSizeBoundUnlessLongRecord ==
    \A i \in DOMAIN disk :
        PhysicalSize(disk[i].ents) > DatafileSize =>
            /\ Len(disk[i].ents) = 1
            /\ EncodedLength(disk[i].ents[1]) > DatafileSize

\* the live pairs in ascending key order: the keys get returns a value for
LivePairs ==
    LET live == KeysInOrder({k \in Keys : Get(k).err = "ok"}, FALSE)
    IN  [i \in DOMAIN live |-> [key |-> live[i], value |-> Get(live[i]).value]]

\* the number of calls after which f may answer false; 0 stands for never
FoldStops == 0..Cardinality(Keys)

\* C16: with the engine open, fold calls f with the live pairs in ascending key
\* order, with all of them when f never answers false and with the first n of
\* them when f answers false at its n-th call.
FoldVisitsLivePairs ==
    status = "open" =>
        \A stop_at \in FoldStops :
            EngineFold(Store, indexer, stop_at) =
                IF stop_at = 0 \/ stop_at > Len(LivePairs) THEN LivePairs
                ELSE SubSeq(LivePairs, 1, stop_at)

\* C17: Engine::put, Engine::get, Engine::delete, WriteBatch::put and
\* WriteBatch::delete called with the empty key return EmptyKey and leave the
\* log, the write cursor, the keydir and the staging map unchanged.
EmptyKeyRejection ==
    [][((\E v \in CrashValues : Put(<<>>, v))
            \/ GetKey(<<>>)
            \/ Delete(<<>>)
            \/ (\E v \in CommitValues : BatchPut(<<>>, v))
            \/ BatchDelete(<<>>))
        => /\ result' = "EmptyKey"
           /\ UNCHANGED <<disk, active_file, old_files, indexer, pending_batch>>]_vars

\* an empty-key call was rejected while the log, the keydir and the staging
\* map all held entries
EmptyKeyRejectionWitness ==
    /\ result = "EmptyKey"
    /\ TotalEntries(disk) > 0
    /\ DOMAIN indexer # {}
    /\ DOMAIN pending_batch # {}

\* C18: Engine::delete(k) for a key the keydir does not map returns success,
\* appends no record and leaves the keydir unchanged; and every delete leaves
\* the key unmapped, so a repeated delete appends nothing more.
DeleteAbsentKeyIsNoOp ==
    [][\A k \in Keys :
          Delete(k) =>
              /\ k \notin DOMAIN indexer'
              /\ k \notin DOMAIN indexer =>
                    /\ result' = "Ok"
                    /\ UNCHANGED <<disk, active_file, old_files, indexer>>]_vars

\* a key was deleted with success although the log, which holds records of
\* other keys, has none for it
DeleteAbsentKeyIsNoOpWitness ==
    \E k \in Keys :
        /\ last[k].op = "delete"
        /\ result = "Ok"
        /\ DOMAIN indexer # {}
        /\ \A e \in LogEntries(disk) : e.key.key # k

\* C19: commit() on a batch with more staged keys than max_batch_size returns
\* ExceedBatchMaxSize, appends no record, takes no sequence id and leaves the
\* keydir and the staging map unchanged.
OversizedBatchRejected ==
    [][((\E o \in Orders(pending_batch) : Commit(o))
            /\ Cardinality(DOMAIN pending_batch) > MaxBatchSize)
        => /\ result' = "ExceedBatchMaxSize"
           /\ UNCHANGED <<disk, active_file, old_files, indexer, batch_commit_id,
                          pending_batch>>]_vars

\* a commit was rejected for its size while the log and the keydir held
\* entries and the staging map still holds the oversized batch
OversizedBatchRejectedWitness ==
    /\ result = "ExceedBatchMaxSize"
    /\ Cardinality(DOMAIN pending_batch) > MaxBatchSize
    /\ TotalEntries(disk) > 0
    /\ DOMAIN indexer # {}

\* C20: an operation that returns an error of append_log_record adds, changes
\* and removes no keydir entry and keeps the staging map.
AppendFailureKeepsKeydir ==
    [][result' \in AppendErrors =>
          /\ indexer' = indexer
          /\ pending_batch' = pending_batch]_vars

\* a commit failed after some of its records were appended (a member record
\* without terminator is in the log) while keydir and staging map held entries
AppendFailureKeepsKeydirWitness ==
    /\ result \in AppendErrors
    /\ DOMAIN indexer # {}
    /\ DOMAIN pending_batch # {}
    /\ \E id \in BatchIds(disk) :
          /\ BatchMembers(disk, id) # {}
          /\ ~HasTerminator(disk, id)

\* what get(k) returns from the engine a close and reopen builds from the
\* disk; an open that fails returns no engine to read from
GetAfterReopen(d, k) ==
    LET r == LoadIndexFromDataFiles(d)
        s == [disk |-> d, active_file |-> DataFile(Len(d) - 1, r.offset),
              old_files |-> [f \in 0..(Len(d) - 2) |-> 0]]
    IN  IF r.err = "ok" THEN EngineGet(s, r.indexer, k) ELSE Err(r.err)

AllReturned == \A t \in Threads : inflight[t].pc = "idle"

\* C21: once every concurrent put, delete and commit has returned, get(K) in
\* the session equals get(K) after close and reopen, for every key K.
LinearizableWrites ==
    (status = "open" /\ AllReturned) =>
        \A k \in Keys : Get(k) = GetAfterReopen(disk, k)

\* the orders in which read_dir may list the data files of a directory
Listings(d) ==
    {l \in [1..Len(d) -> 0..(Len(d) - 1)] :
        \A i, j \in 1..Len(d) : i # j => l[i] # l[j]}

\* what a caller sees of one run of open: the error, or the key sequence of
\* list_keys, the keydir locations and get of every key
OpenOutcome(d, listing, now) ==
    LET r == OpenRun(d, listing, now)
        s == [disk |-> d, active_file |-> DataFile(Len(d) - 1, r.offset),
              old_files |-> [f \in 0..(Len(d) - 2) |-> 0]]
    IN  [err |-> r.err,
         keys |-> ItemKeys(BTreeIter(r.indexer)),
         locations |-> r.indexer,
         gets |-> [k \in Keys |-> EngineGet(s, r.indexer, k)]]

\* C22: for one directory contents, any two runs of open, whatever the order
\* the directory lists its files in and whatever the time the session prefix
\* is minted at, give the same key sequence, keydir locations and get results.
\* Checked at every open the engine makes: each such run agrees with the
\* engine that open built, hence any two of them with each other.
RecoveryDeterminism ==
    [][(status \in {"closed", "crashed"} /\ status' \in {"open", "failed"}) =>
          LET first == OpenOutcome(disk, [i \in 1..Len(disk) |-> i - 1], 1)
          IN  /\ result' = (IF first.err = "ok" THEN "Ok" ELSE first.err)
              /\ first.err = "ok" => first.locations = indexer'
              /\ \A l \in Listings(disk), now \in {1, clock + 1} :
                     OpenOutcome(disk, l, now) = first]_vars

\* an engine recovered from two segments that hold a committed batch
RecoveryDeterminismWitness ==
    /\ status = "open"
    /\ clock > 1
    /\ Len(disk) >= 2
    /\ applied # {}
    /\ DOMAIN indexer # {}
    /\ \E l \in Listings(disk) :
          /\ l # SortFileIds(l)
          /\ OpenOutcome(disk, l, clock).locations = indexer

\* every record read from a file nobody altered is the record that was written
ReadsBack ==
    (status = "file" /\ raw.hit = 0 /\ raw.out.at # 0) =>
        /\ raw.out.err = "ok"
        /\ raw.out.size = (IF raw.out.at < Len(raw.starts)
                           THEN raw.starts[raw.out.at + 1] ELSE Len(raw.bytes))
                             - raw.starts[raw.out.at]
        /\ LogRecord(raw.out.record_type, raw.out.key, raw.out.value) \in StoredRecords

\* C23: after one byte in the covered range of a stored record was altered, a
\* read_log_record at that record's offset fails with DatabaseFileCorrupted.
CrcIntegrity ==
    (status = "file" /\ raw.hit # 0 /\ raw.out.at = raw.hit) =>
        raw.out.err = "DatabaseFileCorrupted"

\* no read of an altered record returns a record
AlteredRecordNotReturned ==
    ~(status = "file" /\ raw.hit # 0 /\ raw.out.at = raw.hit /\ raw.out.err = "ok")

\* the records of the log in log order: segment after segment
RECURSIVE LogOf(_)
LogOf(d) == IF d = <<>> THEN <<>> ELSE Head(d).ents \o LogOf(Tail(d))

\* the batch a record belongs to: its session prefix and sequence id
\* (sequence id 0 for a record written by put or delete)
BatchTag(e) ==
    LET p == LogRecordKeyParse(e.key)
    IN  [prefix |-> p.prefix, seq_id |-> p.seq_id]

IsBatchRecord(e) == BatchTag(e).seq_id # NON_BATCH_COMMIT_ID

\* C24: the member records and the terminator of every batch occupy a
\* contiguous run of the log: between two records of one batch there is no
\* record of another batch and no record of a put or a delete.
BatchRecordsContiguous ==
    LET log == LogOf(disk)
    IN  \A i, k \in 1..Len(log) :
            (i < k /\ IsBatchRecord(log[i]) /\ BatchTag(log[i]) = BatchTag(log[k])) =>
                \A j \in i..k : BatchTag(log[j]) = BatchTag(log[i])

\* between two records of one batch there is no record of another batch
BatchesNotInterleaved ==
    LET log == LogOf(disk)
    IN  \A i, k \in 1..Len(log) :
            (i < k /\ IsBatchRecord(log[i]) /\ BatchTag(log[i]) = BatchTag(log[k])) =>
                \A j \in i..k :
                    IsBatchRecord(log[j]) => BatchTag(log[j]) = BatchTag(log[i])

\* one thread waits for the commit lock while the other has appended a member
BatchesNotInterleavedWitness ==
    /\ \E i \in 1..Len(LogOf(disk)) : IsBatchRecord(LogOf(disk)[i])
    /\ \E t, u \in Threads :
          inflight[t].pc = "commit_fin" /\ inflight[u].pc = "commit_lock"

IsTerminator(e) == e.record_type = "BatchCommit"

\* C25: of two terminators in the log of one session, the one that comes
\* first carries the smaller sequence id.
SeqIdsFollowCommitOrder ==
    LET log == LogOf(disk)
    IN  \A i, k \in 1..Len(log) :
            (i < k /\ IsTerminator(log[i]) /\ IsTerminator(log[k])
                   /\ BatchTag(log[i]).prefix = BatchTag(log[k]).prefix) =>
                BatchTag(log[i]).seq_id < BatchTag(log[k]).seq_id

\* LogRecordPos order: by file id, then by offset
PosLess(p, q) ==
    \/ p.file_id < q.file_id
    \/ p.file_id = q.file_id /\ p.offset < q.offset

\* the record the keydir entry of a key points at
IndexedRecord(key) ==
    ReadLogRecord(disk[indexer[key].file_id + 1].ents, indexer[key].offset).record

\* C26: the terminator of a batch lies at a greater log position than every
\* member record of the batch, and a keydir entry points at a member record
\* only when the terminator of its batch is in the log.
TerminatorIsLast ==
    /\ \A f, g \in 1..Len(disk) :
          \A i \in 1..Len(disk[f].ents), j \in 1..Len(disk[g].ents) :
              (/\ IsTerminator(disk[f].ents[i])
               /\ ~IsTerminator(disk[g].ents[j])
               /\ BatchTag(disk[g].ents[j]) = BatchTag(disk[f].ents[i])) =>
                  PosLess(LogRecordPos(g - 1, EntryStart(disk[g].ents, j)),
                          LogRecordPos(f - 1, EntryStart(disk[f].ents, i)))
    /\ \A key \in DOMAIN indexer :
          IsBatchRecord(IndexedRecord(key)) =>
              \E f \in 1..Len(disk) : \E i \in 1..Len(disk[f].ents) :
                  /\ IsTerminator(disk[f].ents[i])
                  /\ BatchTag(disk[f].ents[i]) = BatchTag(IndexedRecord(key))

\* a commit of two members whose terminator went to the next segment has put
\* one member into the keydir and not yet the other
TerminatorIsLastWitness ==
    /\ Len(disk) >= 2
    /\ \E t \in Threads :
          /\ inflight[t].pc = "commit_index"
          /\ Len(inflight[t].poss) = 1
          /\ Cardinality(DOMAIN inflight[t].batch) = 2
    /\ \E key \in DOMAIN indexer : IsBatchRecord(IndexedRecord(key))
    /\ IsTerminator(disk[Len(disk)].ents[1])

\* the member records of the batches whose terminator is in the directory d
CommittedMembers(d) ==
    { LogRecordPos(g - 1, EntryStart(d[g].ents, j)) :
        <<g, j>> \in { gj \in (1..Len(d)) \X (1..MaxRecords) :
            /\ gj[2] <= Len(d[gj[1]].ents)
            /\ d[gj[1]].ents[gj[2]].torn = 0
            /\ IsBatchRecord(d[gj[1]].ents[gj[2]])
            /\ ~IsTerminator(d[gj[1]].ents[gj[2]])
            /\ \E f \in 1..Len(d) : \E i \in 1..Len(d[f].ents) :
                  /\ d[f].ents[i].torn = 0
                  /\ IsTerminator(d[f].ents[i])
                  /\ BatchTag(d[f].ents[i]) = BatchTag(d[gj[1]].ents[gj[2]]) } }

\* C27: an open after a close succeeds, and every open that succeeds has
\* applied all member records of every batch whose terminator is in the log,
\* in whichever segments the members and the terminator lie.
StraddlingBatchReplayed ==
    [][(status \in {"closed", "crashed"} /\ status' \in {"open", "failed"}) =>
          /\ status = "closed" => status' = "open"
          /\ status' = "open" => CommittedMembers(disk') \subseteq applied']_vars

\* the engine was opened on a log where a batch has a member in one segment
\* and its terminator in the next
StraddlingBatchReplayedWitness ==
    /\ status = "open"
    /\ clock > 1
    /\ \E f \in 2..Len(disk) :
          /\ disk[f].ents # <<>>
          /\ IsTerminator(disk[f].ents[1])
          /\ \E j \in 1..Len(disk[f - 1].ents) :
                /\ BatchTag(disk[f - 1].ents[j]) = BatchTag(disk[f].ents[1])
                /\ LogRecordPos(f - 2, EntryStart(disk[f - 1].ents, j)) \in applied

\* the log holds a terminator that no member record waits for: none of its
\* batch lies before it, or none since the previous terminator of that batch
HasUnpairableTerminator(d) ==
    LET log == LogOf(d)
    IN  \E k \in 1..Len(log) :
            /\ IsTerminator(log[k])
            /\ ~\E i \in 1..(k - 1) :
                  /\ ~IsTerminator(log[i])
                  /\ BatchTag(log[i]) = BatchTag(log[k])
                  /\ \A j \in (i + 1)..(k - 1) :
                        ~(IsTerminator(log[j]) /\ BatchTag(log[j]) = BatchTag(log[k]))

\* C28: an open whose replay meets a terminator with nothing staged fails
\* with DatabaseFileCorrupted and leaves no engine, and the directory that
\* the calls of a session wrote holds no such terminator.
UnpairableTerminatorIsCorruption ==
    [][/\ status' \in {"open", "closed"} => ~HasUnpairableTerminator(disk')
       /\ (status \in {"closed", "crashed"} /\ status' \in {"open", "failed"}) =>
             /\ HasUnpairableTerminator(disk) <=>
                   (status' = "failed" /\ result' = "DatabaseFileCorrupted")
             /\ status' = "failed" =>
                   (indexer' = EmptyIndexer /\ ~InSession')]_vars

\* open failed on a directory whose terminator lost its members
UnpairableTerminatorIsCorruptionWitness ==
    /\ status = "failed"
    /\ result = "DatabaseFileCorrupted"
    /\ HasUnpairableTerminator(disk)
    /\ indexer = EmptyIndexer

\* an empty batch was committed and the log holds a committed batch
EmptyCommitWitness ==
    /\ status = "open"
    /\ batch_live /\ pending_batch = EmptyBatch /\ result = "Ok"
    /\ \E i \in 1..Len(LogOf(disk)) : IsTerminator(LogOf(disk)[i])

\* C29: what an open applies of the batch records are member records whose
\* own batch, session prefix and sequence id together, has its terminator
\* in the log; a member left by an earlier session is never applied by the
\* terminator of a later session that carries the same sequence id.
SessionsDoNotCollide ==
    [][(status \in {"closed", "crashed"} /\ status' = "open") =>
          /\ applied' \subseteq CommittedMembers(disk')
          /\ \A key \in DOMAIN indexer' :
                LET pos == indexer'[key]
                    rec == ReadLogRecord(disk'[pos.file_id + 1].ents, pos.offset).record
                IN  IsBatchRecord(rec) => pos \in CommittedMembers(disk')]_vars

\* the log that was opened holds a member of one session without terminator
\* and a committed batch of a later session with the same sequence id
SessionsDoNotCollideWitness ==
    /\ status = "open"
    /\ applied # {}
    /\ LET log == LogOf(disk)
       IN  \E i, k \in 1..Len(log) :
              /\ i < k
              /\ ~IsTerminator(log[i]) /\ IsBatchRecord(log[i])
              /\ IsTerminator(log[k])
              /\ BatchTag(log[i]).seq_id = BatchTag(log[k]).seq_id
              /\ BatchTag(log[i]).prefix # BatchTag(log[k]).prefix
              /\ ~\E j \in 1..Len(log) :
                    IsTerminator(log[j]) /\ BatchTag(log[j]) = BatchTag(log[i])

\* the error the replay meets at a damaged record
DamageError(e) ==
    IF e.torn < 0 THEN "FailToReadFromDataFile"
    ELSE IF e.torn > 0 THEN "DatabaseFileCorrupted"
    ELSE IF LogRecordKeyParse(e.key).err # "ok" THEN LogRecordKeyParse(e.key).err
    ELSE "ok"

DamagedRecords(d) ==
    { e \in UNION { { d[f].ents[i] : i \in 1..Len(d[f].ents) } : f \in 1..Len(d) } :
        DamageError(e) # "ok" }

ReplayKeyErrorWitness ==
    /\ status = "failed"
    /\ result = "DecodingError"
    /\ \E f \in 1..Len(disk) : \E i \in 1..Len(disk[f].ents) :
          disk[f].ents[i].key = UnframedKey

\* the entry of the log that starts at pos (there is one in every state of
\* ShortSpec: positions come from append_log_record)
EntryAt(d, pos) ==
    d[pos.file_id + 1].ents[CHOOSE i \in 1..Len(d[pos.file_id + 1].ents) :
                              EntryStart(d[pos.file_id + 1].ents, i) = pos.offset]

\* the step appended a record of which only a part is on disk
ShortWriteStep ==
    /\ TotalEntries(disk') = TotalEntries(disk) + 1
    /\ LET ents == disk'[active_file'.file_id + 1].ents
       IN  ents[Len(ents)].torn > 0

\* C31: a call whose underlying write stored fewer bytes than the encoded
\* record returns an error and leaves the keydir as it was, and the keydir
\* never points at a record that is only partly on disk.
ShortWritesAreErrors ==
    [][ /\ ShortWriteStep => (result' # "Ok" /\ indexer' = indexer)
        /\ \A k \in DOMAIN indexer' : EntryAt(disk', indexer'[k]).torn = 0 ]_vars

\* the active segment of the directory ends in a fragment of a record
TornTail(d) ==
    /\ d # <<>>
    /\ d[Len(d)].ents # <<>>
    /\ d[Len(d)].ents[Len(d[Len(d)].ents)].torn > 0

\* C32: Engine::open on a directory whose active segment ends in a partial
\* record returns Ok with the write cursor at the start of the partial record,
\* and afterwards every location in the keydir (the locations that
\* append_log_record returned) reads back a record.
TornTailEndsSegment ==
    [][ /\ (status = "crashed" /\ status' \in {"open", "failed"} /\ TornTail(disk))
            => /\ result' = "Ok"
               /\ active_file'.write_offset
                    = EntryStart(disk[Len(disk)].ents, Len(disk[Len(disk)].ents))
        /\ status' = "open"
            => \A k \in DOMAIN indexer' :
                  GetByPosition([disk |-> disk', active_file |-> active_file',
                                 old_files |-> old_files'], indexer'[k]).err = "ok"
      ]_vars

\* the first half alone: the open over a torn tail returns Ok
TornTailOpenSucceeds ==
    [][ (status = "crashed" /\ status' \in {"open", "failed"} /\ TornTail(disk))
            => result' = "Ok" ]_vars

\* the second half alone: what is appended after the recovery reads back
AppendAfterTornTailReadable ==
    [][ status' = "open"
            => \A k \in DOMAIN indexer' :
                  GetByPosition([disk |-> disk', active_file |-> active_file',
                                 old_files |-> old_files'], indexer'[k]).err = "ok"
      ]_vars

\* C33: an append rotates exactly when cursor + encoded length exceeds
\* datafile_size (an exact fill stays in the segment); a rotation syncs the
\* previous active segment and files it in the immutable map under its own
\* id, the new active segment has the next id, the record is its first one at
\* offset 0, and that is the location the keydir gets for a put.
RotationStep ==
    [][ TotalEntries(disk') = TotalEntries(disk) + 1 =>
          LET fid == active_file.file_id
              ents == disk'[active_file'.file_id + 1].ents
              rec == ents[Len(ents)]
              len == EncodedLength(rec)
              rotated == active_file'.file_id # fid
              pos == IF rotated THEN LogRecordPos(fid + 1, 0)
                     ELSE LogRecordPos(fid, active_file.write_offset)
          IN  /\ rotated <=> active_file.write_offset + len > DatafileSize
              /\ rotated =>
                   /\ active_file' = DataFile(fid + 1, len)
                   /\ ents = <<rec>>
                   /\ disk'[fid + 1].ents = disk[fid + 1].ents
                   /\ disk'[fid + 1].synced = Len(disk[fid + 1].ents)
                   /\ DOMAIN old_files' = DOMAIN old_files \cup {fid}
                   /\ old_files'[fid] = active_file.write_offset
                   /\ \A f \in DOMAIN old_files : old_files'[f] = old_files[f]
              /\ ~rotated =>
                   /\ active_file' = DataFile(fid, active_file.write_offset + len)
                   /\ old_files' = old_files
              /\ rec.record_type = "Normal" =>
                   indexer'[LogRecordKeyParse(rec.key).key] = pos
              /\ ReadLogRecord(disk'[pos.file_id + 1].ents, pos.offset).record = rec
      ]_vars

\* a segment was filled exactly, stayed active, and the next append rotated
RotationStepWitness ==
    /\ active_file.file_id = 1
    /\ 0 \in DOMAIN old_files
    /\ old_files[0] = DatafileSize
    /\ Len(disk[1].ents) = 2
    /\ disk[1].synced = 2
    /\ Len(disk[2].ents) = 1

\* the keydir entry k -> pos refers to the start of a whole record of an
\* existing segment, of type Normal or Deleted, whose framed user key is k
WellFormedEntry(d, k, pos) ==
    /\ pos.file_id + 1 \in DOMAIN d
    /\ \E i \in 1..Len(d[pos.file_id + 1].ents) :
          LET e == d[pos.file_id + 1].ents[i]
          IN  /\ EntryStart(d[pos.file_id + 1].ents, i) = pos.offset
              /\ e.torn = 0
              /\ e.record_type \in {"Normal", "Deleted"}
              /\ LogRecordKeyParse(e.key).err = "ok"
              /\ LogRecordKeyParse(e.key).key = k

\* C34: in every state reached by open, put, delete and commit, every keydir
\* entry refers to the start of a Normal or Deleted record of an existing
\* segment whose framed user key is the entry's key.
KeydirWellFormed ==
    status = "open" =>
        \A k \in DOMAIN indexer : WellFormedEntry(disk, k, indexer[k])

\* the sequence ids of the batch records of this session in the log
LoggedSeqIds(d) ==
    { BatchTag(LogOf(d)[i]).seq_id :
        i \in { j \in 1..Len(LogOf(d)) :
                  BatchTag(LogOf(d)[j]).prefix = batch_prefix } }

\* the thread is inside a commit that holds a sequence id
InCommit(c) == c.pc \in {"commit_lock", "commit_append", "commit_fin", "commit_index"}

\* C35: a commit that takes its sequence id gets one that is not 0, that no
\* commit in flight on another thread holds and that no batch record of the
\* session carries (so no earlier commit, finished or failed after appending,
\* had it), and the counter, which never goes back, moves past it; non-batched records carry id 0 and
\* batch records never do.
SeqIdsUnique ==
    [][ /\ \A t \in Threads :
             (inflight[t].pc = "idle" /\ inflight'[t].pc = "commit_lock") =>
                /\ inflight'[t].seq_id # NON_BATCH_COMMIT_ID
                /\ \A u \in Threads \ {t} :
                      InCommit(inflight[u]) => inflight[u].seq_id # inflight'[t].seq_id
                /\ inflight'[t].seq_id \notin LoggedSeqIds(disk)
                /\ batch_commit_id' > inflight'[t].seq_id
                /\ inflight'[t].seq_id >= batch_commit_id
        /\ batch_commit_id' >= batch_commit_id
        /\ \A i \in 1..Len(LogOf(disk')) :
             LET tag == BatchTag(LogOf(disk')[i])
             IN  (tag.prefix = NON_TXN_PREFIX) <=> (tag.seq_id = NON_BATCH_COMMIT_ID)
      ]_vars

\* one commit failed at an append after taking an id, and two more commits
\* hold different ids at the same time
SeqIdsUniqueWitness ==
    /\ result = "FailToWriteToDataFile"
    /\ \E t, u \in Threads :
          /\ t # u
          /\ InCommit(inflight[t]) /\ InCommit(inflight[u])
          /\ inflight[t].seq_id # inflight[u].seq_id
    /\ \A t \in Threads : inflight[t].seq_id > 1

\* the read at the offset of the i-th record written gave that record back,
\* with the number of bytes written for it as its size
ReadGaveRecord(i) ==
    LET rec == disk[1].ents[i]
    IN  /\ raw.out.err = "ok"
        /\ raw.out.record_type = rec.record_type
        /\ raw.out.key = rec.key
        /\ raw.out.value = rec.value
        /\ raw.out.size = Len(Encode(rec))

\* C36 as stated: whatever records were appended to a data file, a
\* read_log_record at the offset where a record was written returns that
\* record and its size in bytes, before and after later appends, and the
\* write cursor stays at the end of what was written.
PositionalReadRoundTrip ==
    (status = "file" /\ raw.out.at # 0) =>
        /\ ReadGaveRecord(raw.out.at)
        /\ active_file.write_offset = Len(raw.bytes)

\* C36 as amended: the same for every record whose key or value is not
\* empty; a record with an empty key and an empty value reads as ReadEOF.
PositionalReadRoundTripOfNonEmpty ==
    (status = "file" /\ raw.out.at # 0) =>
        LET rec == disk[1].ents[raw.out.at]
        IN  /\ (rec.key # <<>> \/ rec.value # <<>>) => ReadGaveRecord(raw.out.at)
            /\ (rec.key = <<>> /\ rec.value = <<>>) => raw.out.err = "ReadEOF"
            /\ active_file.write_offset = Len(raw.bytes)

\* the first of two records was read back after the second was appended
PositionalReadRoundTripWitness ==
    /\ status = "file"
    /\ Len(raw.starts) = 2
    /\ raw.out.at = 1
    /\ raw.out.err = "ok"
    /\ raw.out.key = <<0>>
    /\ disk[1].ents[2].record_type = "Deleted"

\* C37: an Engine::open that follows a close, over the log that successful
\* put, delete and batch calls of earlier sessions wrote, returns Ok.
ReopenNeverFails ==
    [][ (status = "closed" /\ status' # "closed") =>
            /\ status' = "open"
            /\ result' = "Ok" ]_vars

\* some thread is inside a call and no thread inside a call can go on
Deadlocked ==
    /\ \E t \in LockThreads : inflight[t].pc # "idle"
    /\ \A t \in LockThreads :
          inflight[t].pc # "idle" =>
             /\ inflight[t].todo # <<>>
             /\ Head(inflight[t].todo).op = "acq"
             /\ ~Available(t, Head(inflight[t].todo).lock, Head(inflight[t].todo).mode)

\* no reachable state is a deadlock
NoDeadlock == ~Deadlocked

\* C38: every call of put, get, delete, iterator next, sync, batch delete
\* and commit that a thread has entered returns, whatever the other threads
\* do.
EveryCallReturns ==
    \A t \in LockThreads : (inflight[t].pc # "idle") ~> (inflight[t].pc = "idle")

\* a put that rotates holds the active file and waits for old_files, which
\* a get holds while it reads an older file
EveryCallReturnsWitness ==
    \E t, u \in LockThreads :
        /\ inflight[t].pc = "put"
        /\ [lock |-> Shared("active_file"), mode |-> "write"] \in inflight[t].held
        /\ Head(inflight[t].todo) = Acq(Shared("old_files"), "write")
        /\ inflight[u].pc = "get"
        /\ inflight[u].held = {[lock |-> Shared("old_files"), mode |-> "read"]}

\* the file of a location is the active file or one of old_files
SegmentInPlace(pos) ==
    pos.file_id = active_file.file_id \/ pos.file_id \in DOMAIN old_files

\* C39: a get that took its location from the keydir and reaches
\* get_by_position, whatever appends and rotations ran in between, finds the
\* file of the location as the active file or in old_files and returns the
\* value; it never returns DataFileNotFound.
ReadsFindTheSegment ==
    [][ \A t \in Threads :
          (inflight[t].pc = "get_by_position" /\ inflight'[t].pc = "idle") =>
             /\ SegmentInPlace(inflight[t].pos)
             /\ result' # "DataFileNotFound"
             /\ result' = "Ok" ]_vars

\* a get holds a location in the file that another thread is rotating: the
\* active file is already the next one and the old one is not yet in
\* old_files
ReadsFindTheSegmentWitness ==
    \E t, u \in Threads :
        /\ inflight[t].pc = "get_by_position"
        /\ inflight[u].pc = "rotate_insert"
        /\ inflight[t].pos.file_id = inflight[u].pos.file_id
        /\ ~SegmentInPlace(inflight[t].pos)

\* the location is the one an append of this step returned: it is in the
\* file that is active after the step, at the cursor the active file had
\* when the record was written, and the bytes of every record written
\* before the step lie in an older file or end at or before it
FollowsTheLog(pos) ==
    /\ pos.file_id = active_file'.file_id
    /\ pos.offset = IF active_file'.file_id = active_file.file_id
                    THEN active_file.write_offset ELSE 0
    /\ \A f \in 1..Len(disk) : \A i \in 1..Len(disk[f].ents) :
          \/ f - 1 < pos.file_id
          \/ /\ f - 1 = pos.file_id
             /\ EntryStart(disk[f].ents, i) + EntrySize(disk[f].ents[i])
                   <= pos.offset

\* C40: the location a successful append_log_record returns, to a call of
\* the engine or to a thread inside put, delete or commit, is at the cursor
\* of the active file at the time of the write, is greater than the location
\* of every record appended before, and the bytes of the record start where
\* no earlier record has bytes.
AppendLocationsIncrease ==
    [][ TotalEntries(disk') = TotalEntries(disk) + 1 =>
          /\ \A k \in DOMAIN indexer' :
                (/\ inflight' = inflight
                 /\ (k \notin DOMAIN indexer \/ indexer'[k] # indexer[k]))
                    => FollowsTheLog(indexer'[k])
          /\ \A t \in Threads :
                /\ (/\ inflight'[t].pc \in {"put_index", "delete_index"}
                    /\ inflight[t].pc # inflight'[t].pc)
                      => FollowsTheLog(inflight'[t].pos)
                /\ Len(inflight'[t].poss) = Len(inflight[t].poss) + 1
                      => FollowsTheLog(inflight'[t].poss[Len(inflight'[t].poss)].pos)
      ]_vars

\* two threads hold the locations of their appends, the first at the start
\* of the log and the second at the start of the file a rotation opened
AppendLocationsIncreaseWitness ==
    \E t, u \in Threads :
        /\ inflight[t].pc = "put_index"
        /\ inflight[t].pos = LogRecordPos(0, 0)
        /\ inflight[u].pc \in {"put_index", "delete_index"}
        /\ inflight[u].pos = LogRecordPos(1, 0)
        /\ Len(disk[1].ents) >= 2
====
